---- MODULE Spec2Model ----
(***************************************************************************)
(* Model of the session layer of file-sync (net::Session and net::Peer,    *)
(* src/src/peer.cpp).  Every operation is a coroutine; a step of the model *)
(* is the code that runs between two suspension points (co_await), which   *)
(* is the granularity at which the executor interleaves coroutines.        *)
(*                                                                         *)
(* Socket traffic is recorded frame by frame: one frame per async_write    *)
(* or async_read buffer, tagged with the operation that issued it.         *)
(*                                                                         *)
(* The second half models fstree (src/unnamed/part_004): scanning a        *)
(* directory into a DirectoryTree, Node::generate_hash, the node codec     *)
(* over the wire helpers (src/unnamed/part_005) and diffTree.  The file    *)
(* system is a variable of the model, so that files can change between     *)
(* a scan and a later read; SpecTree, SpecWire and SpecDiff drive these    *)
(* operations over bounded file systems; SpecShort decodes truncated       *)
(* buffers.                                                                *)
(*                                                                         *)
(* SpecPeer adds the accept loop of Peer (doAccept, its completion         *)
(* handler and closeAcceptor): the completion of async_accept and the run  *)
(* of its handler are separate steps.  SpecTransfer runs Session::sendFile *)
(* on one file system and Session::receiveFile on another, over the byte   *)
(* stream the sender produced; SpecHostile feeds receiveFile headers that  *)
(* name any path, resolved in the file system around the root.            *)
(*                                                                         *)
(* SpecFair runs the tree operations of one peer on a strand that is fair  *)
(* to every ready handler.  SpecLink connects two peers: what the          *)
(* sendTree of one end writes is what the receiveTree of the other end     *)
(* reads, and a read completes only when its bytes have arrived.           *)
(***************************************************************************)
EXTENDS Integers, Sequences, FiniteSets, TLC

\* ------------------------------------------------------------------------
\* Program constants
\* ------------------------------------------------------------------------
MAX_TREE_SIZE == 64 * 1024 * 1024

MAX_FILE_CHUNK_SIZE == 64 * 1024 * 1024

\* ------------------------------------------------------------------------
\* Bounds of the model
\* ------------------------------------------------------------------------
\* sessions a peer creates
MaxSessions == 2

\* operations invoked over the life of the peer
MaxOps == 2

\* largest serialized tree handed to sendTree / small lengths read by receiveTree
MaxTreeLen == 1

\* largest file size (FileMeta.size, header file_size, bytes on disk)
MaxFileSize == 3

\* largest small chunk size / chunk length
MaxChunk == 2

\* largest file size and chunk size when operations run concurrently
MaxConcSize == 1

\* largest small header length a remote peer declares
MaxHdrLen == 1

\* length of the relative path of a file that is sent
RelPathLen == 1

SessionIds == 1..MaxSessions

OpIds == 1..MaxOps

Kinds == {"sendTree", "receiveTree", "sendFile", "receiveFile"}

\* The workload of a run: "single" is one operation with files of several
\* chunks, "concurrent" is MaxOps operations with files of at most one chunk.
Workloads == {"single", "concurrent"}

\* lengths a remote peer may declare in a tree frame (u64)
TreeSizeInputs == (0..MaxTreeLen) \cup {MAX_TREE_SIZE, MAX_TREE_SIZE + 1}

\* lengths a remote peer may declare in a file header frame (u64)
HdrSizeInputs == (0..MaxHdrLen) \cup {MAX_FILE_CHUNK_SIZE + 1}

\* file sizes: FileMeta.size, the file_size of a header, bytes on disk
FileSizes(w) == IF w = "single" THEN 0..MaxFileSize ELSE 0..MaxConcSize

\* chunk sizes (u32): the chunk_size argument of sendFile and the lengths a
\* remote peer may declare in a chunk frame
ChunkSizes(w) ==
  (IF w = "single" THEN 0..MaxChunk ELSE 0..MaxConcSize)
    \cup {MAX_FILE_CHUNK_SIZE, MAX_FILE_CHUNK_SIZE + 1}

VARIABLES
  workload,       \* the workload of this run (never changes)
  ops,            \* ops[o]: the coroutine frame of operation o
  sock,           \* sock[s]: "none" (session not created), "open", "closed"
  sessions_,      \* Peer::sessions_
  on_close_calls, \* on_close_calls[s]: times Session::on_close_ ran for s
  busy_,          \* Session::busy_
  buffer_size,    \* Session::buffer_.size()
  out,            \* out[s]: frames written to socket_ of s, in stream order
  inp,            \* inp[s]: frames read from socket_ of s, in stream order
  acq,            \* acq[s]: operations in the order they won busy_.exchange
  disk,           \* disk[x]: the directory entry found at the root path of side x
  nwrites,        \* changes made to the disks since the start
  tree,           \* tree[x]: the DirectoryTree object of side x
  last_call,      \* the last call on a tree: its node before the call, the files it opened
  diffs,          \* diffs[<<x, y>>]: outcome of diffTree(tree[x], tree[y])
  wire,           \* the byte buffer of the last serialization and what was read back
  xfer,           \* the file sent from side A to side B: the stream and how each end finished
  acceptor_,      \* Peer::acceptor_: "open" or "closed"
  accept_op,      \* the async_accept of Peer::doAccept: "none" (not started),
                  \* "armed" (outstanding), "ok" or "error" (completed with
                  \* that error_code, its handler queued and not yet run)
  accept_failed,  \* whether a completion handler of async_accept has run with an error
  on_accept_calls,\* the calls of on_accept: the session passed and whether
                  \* it was in sessions_ at the call
  link            \* one connection between two peers: the tree operations
                  \* running on either end and the bytes in flight

vars == <<workload, ops, sock, sessions_, on_close_calls, busy_, buffer_size, out, inp, acq,
          disk, nwrites, tree, last_call, diffs, wire, xfer,
          acceptor_, accept_op, accept_failed, on_accept_calls, link>>

acceptVars == <<acceptor_, accept_op, accept_failed, on_accept_calls>>

sessionVars == <<workload, ops, sock, sessions_, on_close_calls, busy_, buffer_size, out, inp, acq>>

\* the session layer and the acceptor: what the tree operations leave alone
netVars == <<sessionVars, acceptVars, link>>

fsVars == <<disk, nwrites, tree, last_call, diffs, wire, xfer>>

\* the session layer runs without a tree of its own in this model
FsIdle ==
  /\ disk = <<>>
  /\ nwrites = 0
  /\ tree = <<>>
  /\ last_call = <<>>
  /\ diffs = <<>>
  /\ wire = <<>>
  /\ xfer = <<>>

peerVars == <<sock, sessions_, on_close_calls>>

\* ------------------------------------------------------------------------
\* Helpers
\* ------------------------------------------------------------------------
Min(a, b) == IF a < b THEN a ELSE b

Frame(o, k, v) == [op |-> o, kind |-> k, val |-> v]

IdleOp == [kind |-> "none", sess |-> 0, pc |-> "idle", late |-> FALSE, err |-> "",
           open_tried |-> FALSE,
           size |-> 0, chunk_size |-> 0, file_size |-> 0, remaining |-> 0,
           avail |-> 0, to_read |-> 0, received |-> 0, written |-> 0]

\* Completion of an asynchronous read or write on socket_: on a socket that
\* is not open it completes with an error; on an open one the transport
\* decides.
IoOutcomesHang(s) == IF sock[s] = "open" THEN {"ok", "error"} ELSE {}

IoOutcomesIgnoreClosed(s) == {"ok", "error"}

IoOutcomes(s) == IF sock[s] = "open" THEN {"ok", "error"} ELSE {"error"}

\* Session::close on the peer state p = [sock, sessions_, on_close_calls];
\* on_close_ is the lambda installed by Peer::createSession.
SessionCloseNoGuard(p, s) ==
  [sock |-> [p.sock EXCEPT ![s] = "closed"],
   sessions_ |-> p.sessions_ \ {s},
   on_close_calls |-> [p.on_close_calls EXCEPT ![s] = @ + 1]]

SessionCloseKeep(p, s) ==
  IF p.sock[s] # "open"
    THEN p
    ELSE [sock |-> [p.sock EXCEPT ![s] = "closed"],
          sessions_ |-> p.sessions_,
          on_close_calls |-> [p.on_close_calls EXCEPT ![s] = @ + 1]]

SessionCloseAll(p, s) ==
  [sock |-> [t \in SessionIds |-> IF p.sock[t] = "open" THEN "closed" ELSE p.sock[t]],
   sessions_ |-> {},
   on_close_calls |-> [t \in SessionIds |-> IF p.sock[t] = "open" THEN p.on_close_calls[t] + 1
                                            ELSE p.on_close_calls[t]]]

SessionClose(p, s) ==
  IF p.sock[s] # "open"
    THEN p
    ELSE [sock |-> [p.sock EXCEPT ![s] = "closed"],
          sessions_ |-> p.sessions_ \ {s},
          on_close_calls |-> [p.on_close_calls EXCEPT ![s] = @ + 1]]

PeerState == [sock |-> sock, sessions_ |-> sessions_, on_close_calls |-> on_close_calls]

SetPeer(p) ==
  /\ sock' = p.sock
  /\ sessions_' = p.sessions_
  /\ on_close_calls' = p.on_close_calls

CloseOne(p, S) == IF S = {} THEN p ELSE SessionClose(p, CHOOSE x \in S : TRUE)

\* Peer::clearSessions: close every element of a copy of sessions_, then clear.
RECURSIVE CloseAll(_, _)
CloseAll(p, S) ==
  IF S = {} THEN p
  ELSE LET s == CHOOSE x \in S : TRUE
       IN CloseAll(SessionClose(p, s), S \ {s})

ThrowCloseKeepBusy(o, why) ==
  LET s == ops[o].sess IN
  /\ ops' = [ops EXCEPT ![o].pc = "failed", ![o].err = why]
  /\ busy_' = busy_
  /\ SetPeer(SessionClose(PeerState, s))

\* catch (...) { busy_.store(false); close(); throw; } of sendTree/receiveTree
ThrowClose(o, why) ==
  LET s == ops[o].sess IN
  /\ ops' = [ops EXCEPT ![o].pc = "failed", ![o].err = why]
  /\ busy_' = [busy_ EXCEPT ![s] = FALSE]
  /\ SetPeer(SessionClose(PeerState, s))

\* an exception leaving sendFile/receiveFile: the coroutine has no handler,
\* the exception goes to the caller and nothing else happens
Thrown(rec, why) == [rec EXCEPT !.pc = "failed", !.err = why]

\* a peer with no session yet, its acceptor open
PeerInit ==
  /\ workload \in Workloads
  /\ ops = [o \in OpIds |-> IdleOp]
  /\ sock = [s \in SessionIds |-> "none"]
  /\ sessions_ = {}
  /\ on_close_calls = [s \in SessionIds |-> 0]
  /\ busy_ = [s \in SessionIds |-> FALSE]
  /\ buffer_size = [s \in SessionIds |-> 0]
  /\ out = [s \in SessionIds |-> <<>>]
  /\ inp = [s \in SessionIds |-> <<>>]
  /\ acq = [s \in SessionIds |-> <<>>]
  /\ acceptor_ = "open"
  /\ accept_op = "none"
  /\ accept_failed = FALSE
  /\ on_accept_calls = <<>>

\* the peer alone: no connection to a second peer is modelled
SessionInit == PeerInit /\ link = <<>>

Init == SessionInit /\ FsIdle

\* ------------------------------------------------------------------------
\* Peer
\* ------------------------------------------------------------------------
\* the session object a call of Peer::createSession makes: the first one
\* that does not exist yet
NewSession(s) ==
  /\ sock[s] = "none"
  /\ \A t \in SessionIds : t < s => sock[t] # "none"

createSessionNoInsert(p, s) == [p EXCEPT !.sock[s] = "open"]

\* Peer::createSession on the peer state p
createSession(p, s) == [p EXCEPT !.sock[s] = "open", !.sessions_ = @ \cup {s}]

\* Peer::createSession run by the completion handler of async_connect
CreateSession(s) ==
  /\ NewSession(s)
  /\ SetPeer(createSession(PeerState, s))
  /\ UNCHANGED <<fsVars, link, acceptVars, workload, ops, busy_, buffer_size, out, inp, acq>>

\* Peer::doAccept called by the owner of the peer: async_accept is started
DoAccept ==
  /\ accept_op = "none"
  /\ accept_op' = "armed"
  /\ UNCHANGED <<fsVars, link, sessionVars, acceptor_, accept_failed, on_accept_calls>>

\* the error_code an outstanding async_accept completes with: on a closed
\* acceptor an error (operation_aborted, bad_descriptor), on an open one
\* success when a connection arrives or an error of the accept call
AcceptOutcomes ==
  IF acceptor_ = "open" /\ \E s \in SessionIds : sock[s] = "none"
    THEN {"ok", "error"}
    ELSE {"error"}

\* async_accept completes; its handler is queued on io_
AcceptComplete ==
  /\ accept_op = "armed"
  /\ \E ec \in AcceptOutcomes : accept_op' = ec
  /\ UNCHANGED <<fsVars, link, sessionVars, acceptor_, accept_failed, on_accept_calls>>

\* the handler after its if (!ec) block: self->doAccept(on_accept), whatever
\* ec is
AfterAccept(ec) == "armed"

\* the completion handler of async_accept runs
AcceptHandler ==
  /\ accept_op \in {"ok", "error"}
  /\ IF accept_op = "ok"
       THEN \E s \in SessionIds :
              /\ NewSession(s)
              /\ LET p == createSession(PeerState, s)
                 IN /\ SetPeer(p)
                    /\ on_accept_calls' = Append(on_accept_calls,
                                                 [sess |-> s, live |-> s \in p.sessions_])
              /\ UNCHANGED accept_failed
       ELSE /\ accept_failed' = TRUE
            /\ UNCHANGED <<peerVars, on_accept_calls>>
  /\ accept_op' = AfterAccept(accept_op)
  /\ UNCHANGED <<fsVars, link, workload, ops, busy_, buffer_size, out, inp, acq, acceptor_>>

\* Peer::closeAcceptor
CloseAcceptor ==
  /\ acceptor_ = "open"
  /\ acceptor_' = "closed"
  /\ UNCHANGED <<fsVars, link, sessionVars, accept_op, accept_failed, on_accept_calls>>

\* Session::close called by a holder of the session
Close(s) ==
  /\ sock[s] # "none"
  /\ SetPeer(SessionClose(PeerState, s))
  /\ UNCHANGED <<fsVars, link, acceptVars, workload, ops, busy_, buffer_size, out, inp, acq>>

ClearSessions ==
  /\ LET p == CloseAll(PeerState, sessions_)
     IN SetPeer([p EXCEPT !.sessions_ = {}])
  /\ UNCHANGED <<fsVars, link, acceptVars, workload, ops, busy_, buffer_size, out, inp, acq>>

\* ------------------------------------------------------------------------
\* Invocation of an operation: the coroutine is created and dispatched to
\* the strand; its arguments are fixed here.
\* ------------------------------------------------------------------------
Start(o) ==
  /\ ops[o].pc = "idle"
  /\ \A q \in OpIds : q < o => ops[q].pc # "idle"
  /\ workload = "single" => o = 1
  /\ \E s \in SessionIds :
       /\ sock[s] # "none"
       /\ \/ \E n \in 1..MaxTreeLen :
               ops' = [ops EXCEPT ![o] = [IdleOp EXCEPT !.kind = "sendTree", !.sess = s,
                         !.pc = "st_spin", !.late = (sock[s] = "closed"), !.size = n]]
          \/ ops' = [ops EXCEPT ![o] = [IdleOp EXCEPT !.kind = "receiveTree", !.sess = s,
                         !.pc = "rt_spin", !.late = (sock[s] = "closed")]]
          \/ \E c \in ChunkSizes(workload), f \in FileSizes(workload) : \E a \in {f - 1, f, f + 1} \cap Nat :
               ops' = [ops EXCEPT ![o] = [IdleOp EXCEPT !.kind = "sendFile", !.sess = s,
                         !.pc = "sf_enter", !.late = (sock[s] = "closed"),
                         !.chunk_size = c, !.file_size = f, !.avail = a]]
          \/ ops' = [ops EXCEPT ![o] = [IdleOp EXCEPT !.kind = "receiveFile", !.sess = s,
                         !.pc = "rf_hdrsize", !.late = (sock[s] = "closed")]]
  /\ UNCHANGED <<fsVars, link, acceptVars, workload, peerVars, busy_, buffer_size, out, inp, acq>>

\* ------------------------------------------------------------------------
\* Session::sendTree
\* ------------------------------------------------------------------------
\* while (busy_.exchange(true)) co_await post(strand_); then serializeTree
\* and the start of async_write
SendTreeAcquire(o) ==
  LET s == ops[o].sess IN
  /\ ops[o].pc = "st_spin"
  /\ IF busy_[s]
       THEN UNCHANGED vars
       ELSE /\ busy_' = [busy_ EXCEPT ![s] = TRUE]
            /\ acq' = [acq EXCEPT ![s] = Append(@, o)]
            /\ buffer_size' = [buffer_size EXCEPT ![s] = ops[o].size]
            /\ ops' = [ops EXCEPT ![o].pc = "st_write"]
            /\ UNCHANGED <<fsVars, link, acceptVars, workload, peerVars, out, inp>>

\* async_write of {size_be_, buffer_}: the length prefix reaches the stream
SendTreeWriteSize(o) ==
  LET s == ops[o].sess IN
  /\ ops[o].pc = "st_write"
  /\ \E r \in IoOutcomes(s) :
       IF r = "ok"
         THEN /\ out' = [out EXCEPT ![s] = Append(@, Frame(o, "treesize", ops[o].size))]
              /\ ops' = [ops EXCEPT ![o].pc = "st_write2"]
              /\ UNCHANGED <<peerVars, busy_>>
         ELSE /\ ThrowClose(o, "transport")
              /\ UNCHANGED out
  /\ UNCHANGED <<fsVars, link, acceptVars, workload, buffer_size, inp, acq>>

\* the payload reaches the stream and the composed write completes
SendTreeWritePayload(o) ==
  LET s == ops[o].sess IN
  /\ ops[o].pc = "st_write2"
  /\ \E r \in IoOutcomes(s) :
       IF r = "ok"
         THEN /\ out' = [out EXCEPT ![s] = Append(@, Frame(o, "treepayload", ops[o].size))]
              /\ ops' = [ops EXCEPT ![o].pc = "done"]
              /\ busy_' = [busy_ EXCEPT ![s] = FALSE]
              /\ UNCHANGED peerVars
         ELSE /\ ThrowClose(o, "transport")
              /\ UNCHANGED out
  /\ UNCHANGED <<fsVars, link, acceptVars, workload, buffer_size, inp, acq>>

\* ------------------------------------------------------------------------
\* Session::receiveTree
\* ------------------------------------------------------------------------
ReceiveTreeAcquire(o) ==
  LET s == ops[o].sess IN
  /\ ops[o].pc = "rt_spin"
  /\ IF busy_[s]
       THEN UNCHANGED vars
       ELSE /\ busy_' = [busy_ EXCEPT ![s] = TRUE]
            /\ acq' = [acq EXCEPT ![s] = Append(@, o)]
            /\ ops' = [ops EXCEPT ![o].pc = "rt_size"]
            /\ UNCHANGED <<fsVars, link, acceptVars, workload, peerVars, buffer_size, out, inp>>

\* if (size > MAX_TREE_SIZE) throw
TreeSizeOkStrict(size) == size < MAX_TREE_SIZE

TreeSizeOk(size) == ~(size > MAX_TREE_SIZE)

\* the 8-byte length has been read: the size check and buffer_.resize
ReceiveTreeReadSize(o) ==
  LET s == ops[o].sess IN
  /\ ops[o].pc = "rt_size"
  /\ \E r \in IoOutcomes(s) :
       IF r = "ok"
         THEN \E size \in TreeSizeInputs :
                /\ inp' = [inp EXCEPT ![s] = Append(@, Frame(o, "treesize", size))]
                /\ IF TreeSizeOk(size)
                     THEN /\ buffer_size' = [buffer_size EXCEPT ![s] = size]
                          /\ ops' = [ops EXCEPT ![o].pc = "rt_payload", ![o].size = size]
                          /\ UNCHANGED <<peerVars, busy_>>
                     ELSE /\ ThrowClose(o, "Tree payload too large")
                          /\ UNCHANGED buffer_size
         ELSE /\ ThrowClose(o, "transport")
              /\ UNCHANGED <<inp, buffer_size>>
  /\ UNCHANGED <<fsVars, link, acceptVars, workload, out, acq>>

\* a read into an empty buffer completes at once without touching the socket
PayloadOutcomes(s, n) == IF n = 0 THEN {"ok"} ELSE IoOutcomes(s)

\* the payload has been read: busy_.store(false) and deserializeTree, which
\* may throw inside the try block
ReceiveTreeReadPayload(o) ==
  LET s == ops[o].sess IN
  /\ ops[o].pc = "rt_payload"
  /\ \E r \in PayloadOutcomes(s, ops[o].size) :
       IF r = "ok"
         THEN /\ inp' = [inp EXCEPT ![s] = Append(@, Frame(o, "treepayload", ops[o].size))]
              /\ \E decoded \in BOOLEAN :
                   IF decoded
                     THEN /\ ops' = [ops EXCEPT ![o].pc = "done"]
                          /\ busy_' = [busy_ EXCEPT ![s] = FALSE]
                          /\ UNCHANGED peerVars
                     ELSE ThrowClose(o, "decode")
         ELSE /\ ThrowClose(o, "transport")
              /\ UNCHANGED inp
  /\ UNCHANGED <<fsVars, link, acceptVars, workload, buffer_size, out, acq>>

\* ------------------------------------------------------------------------
\* Session::sendFile
\* ------------------------------------------------------------------------
ChunkArgOkStrict(chunk_size) == ~(chunk_size = 0 \/ chunk_size >= MAX_FILE_CHUNK_SIZE)

\* if (chunk_size == 0 || chunk_size > MAX_FILE_CHUNK_SIZE) throw
ChunkArgOk(chunk_size) == ~(chunk_size = 0 \/ chunk_size > MAX_FILE_CHUNK_SIZE)

\* header_buf.size(): write_string(path) and write_u64(file_size)
HeaderSize(path_len) == 4 + path_len + 8

\* to_read = min(remaining, chunk_size)
ToReadNoMin(remaining, chunk_size) == chunk_size

ToRead(remaining, chunk_size) == Min(remaining, chunk_size)

\* while (remaining > 0): the head of the loop up to the first co_await,
\* file.read included (it fails when the file holds fewer bytes than asked)
SendLoop(rec) ==
  IF rec.remaining > 0
    THEN LET n == ToRead(rec.remaining, rec.chunk_size) IN
         IF rec.avail < n
           THEN Thrown(rec, "file read failed")
           ELSE [rec EXCEPT !.to_read = n, !.avail = @ - n, !.pc = "sf_chunksize"]
    ELSE [rec EXCEPT !.pc = "done"]

\* the chunk_size check, std::get<FileMeta> (which throws when node is a
\* directory), the open of the file, the header
SendFileEnter(o) ==
  /\ ops[o].pc = "sf_enter"
  /\ IF ~ChunkArgOk(ops[o].chunk_size)
       THEN ops' = [ops EXCEPT ![o] = Thrown(@, "invalid chunk size")]
       ELSE \E fsys \in {"ok", "bad_variant_access", "failed to open file"} :
              ops' = [ops EXCEPT ![o] =
                        IF fsys = "ok" THEN [@ EXCEPT !.pc = "sf_hdrsize", !.open_tried = TRUE]
                        ELSE IF fsys = "failed to open file"
                          THEN Thrown([@ EXCEPT !.open_tried = TRUE], fsys)
                        ELSE Thrown(@, fsys)]
  /\ UNCHANGED <<fsVars, link, acceptVars, workload, peerVars, busy_, buffer_size, out, inp, acq>>

SendFileWriteHdrSize(o) ==
  LET s == ops[o].sess IN
  /\ ops[o].pc = "sf_hdrsize"
  /\ \E r \in IoOutcomes(s) :
       IF r = "ok"
         THEN /\ out' = [out EXCEPT ![s] = Append(@, Frame(o, "hdrsize", HeaderSize(RelPathLen)))]
              /\ ops' = [ops EXCEPT ![o].pc = "sf_hdr"]
         ELSE /\ ops' = [ops EXCEPT ![o] = Thrown(@, "transport")]
              /\ UNCHANGED out
  /\ UNCHANGED <<fsVars, link, acceptVars, workload, peerVars, busy_, buffer_size, inp, acq>>

SendFileWriteHdr(o) ==
  LET s == ops[o].sess IN
  /\ ops[o].pc = "sf_hdr"
  /\ \E r \in IoOutcomes(s) :
       IF r = "ok"
         THEN /\ out' = [out EXCEPT ![s] = Append(@, Frame(o, "hdr", ops[o].file_size))]
              /\ ops' = [ops EXCEPT ![o] = SendLoop([ops[o] EXCEPT !.remaining = ops[o].file_size])]
         ELSE /\ ops' = [ops EXCEPT ![o] = Thrown(@, "transport")]
              /\ UNCHANGED out
  /\ UNCHANGED <<fsVars, link, acceptVars, workload, peerVars, busy_, buffer_size, inp, acq>>

SendFileWriteChunkSize(o) ==
  LET s == ops[o].sess IN
  /\ ops[o].pc = "sf_chunksize"
  /\ \E r \in IoOutcomes(s) :
       IF r = "ok"
         THEN /\ out' = [out EXCEPT ![s] = Append(@, Frame(o, "chunksize", ops[o].to_read))]
              /\ ops' = [ops EXCEPT ![o].pc = "sf_chunk"]
         ELSE /\ ops' = [ops EXCEPT ![o] = Thrown(@, "transport")]
              /\ UNCHANGED out
  /\ UNCHANGED <<fsVars, link, acceptVars, workload, peerVars, busy_, buffer_size, inp, acq>>

SendFileWriteChunk(o) ==
  LET s == ops[o].sess IN
  /\ ops[o].pc = "sf_chunk"
  /\ \E r \in IoOutcomes(s) :
       IF r = "ok"
         THEN /\ out' = [out EXCEPT ![s] = Append(@, Frame(o, "chunk", ops[o].to_read))]
              /\ ops' = [ops EXCEPT ![o] = SendLoop([ops[o] EXCEPT !.remaining = @ - ops[o].to_read])]
         ELSE /\ ops' = [ops EXCEPT ![o] = Thrown(@, "transport")]
              /\ UNCHANGED out
  /\ UNCHANGED <<fsVars, link, acceptVars, workload, peerVars, busy_, buffer_size, inp, acq>>

\* ------------------------------------------------------------------------
\* Session::receiveFile
\* ------------------------------------------------------------------------
\* if (hdr_size > MAX_FILE_CHUNK_SIZE) throw
HdrSizeOk(hdr_size) == ~(hdr_size > MAX_FILE_CHUNK_SIZE)

\* if (chunk_size > MAX_FILE_CHUNK_SIZE || chunk_size == 0) throw
ChunkSizeOkNoZero(chunk_size) == ~(chunk_size > MAX_FILE_CHUNK_SIZE)

ChunkSizeOk(chunk_size) == ~(chunk_size > MAX_FILE_CHUNK_SIZE \/ chunk_size = 0)

\* while (received < file_size); after the loop file.close() and the re-scan
\* tree = DirectoryTree(tree.root_path), which may throw
RecvLoop(rec) ==
  IF rec.received < rec.file_size
    THEN {[rec EXCEPT !.pc = "rf_chunksize"]}
    ELSE {[rec EXCEPT !.pc = "done"], Thrown(rec, "scan failed")}

ReceiveFileReadHdrSize(o) ==
  LET s == ops[o].sess IN
  /\ ops[o].pc = "rf_hdrsize"
  /\ \E r \in IoOutcomes(s) :
       IF r = "ok"
         THEN \E hdr_size \in HdrSizeInputs :
                /\ inp' = [inp EXCEPT ![s] = Append(@, Frame(o, "hdrsize", hdr_size))]
                /\ ops' = [ops EXCEPT ![o] =
                             IF HdrSizeOk(hdr_size)
                               THEN [@ EXCEPT !.pc = "rf_hdr", !.size = hdr_size]
                               ELSE Thrown(@, "header too large")]
         ELSE /\ ops' = [ops EXCEPT ![o] = Thrown(@, "transport")]
              /\ UNCHANGED inp
  /\ UNCHANGED <<fsVars, link, acceptVars, workload, peerVars, busy_, buffer_size, out, acq>>

\* the header has been read: rel_path and file_size are decoded, the parent
\* directories are created and the destination is opened with trunc
ReceiveFileReadHdr(o) ==
  LET s == ops[o].sess IN
  /\ ops[o].pc = "rf_hdr"
  /\ \E r \in PayloadOutcomes(s, ops[o].size) :
       IF r = "ok"
         THEN \E file_size \in FileSizes(workload),
                 fsys \in {"ok", "create_directories failed", "failed to create file"} :
                /\ inp' = [inp EXCEPT ![s] = Append(@, Frame(o, "hdr", file_size))]
                /\ \E next \in RecvLoop([ops[o] EXCEPT !.file_size = file_size,
                                                       !.received = 0, !.written = 0]) :
                     ops' = [ops EXCEPT ![o] =
                               IF fsys = "ok" THEN next
                               ELSE Thrown([ops[o] EXCEPT !.file_size = file_size], fsys)]
         ELSE /\ ops' = [ops EXCEPT ![o] = Thrown(@, "transport")]
              /\ UNCHANGED inp
  /\ UNCHANGED <<fsVars, link, acceptVars, workload, peerVars, busy_, buffer_size, out, acq>>

ReceiveFileReadChunkSize(o) ==
  LET s == ops[o].sess IN
  /\ ops[o].pc = "rf_chunksize"
  /\ \E r \in IoOutcomes(s) :
       IF r = "ok"
         THEN \E chunk_size \in ChunkSizes(workload) :
                /\ inp' = [inp EXCEPT ![s] = Append(@, Frame(o, "chunksize", chunk_size))]
                /\ ops' = [ops EXCEPT ![o] =
                             IF ChunkSizeOk(chunk_size)
                               THEN [@ EXCEPT !.pc = "rf_chunk", !.chunk_size = chunk_size]
                               ELSE Thrown(@, "chunk too large")]
         ELSE /\ ops' = [ops EXCEPT ![o] = Thrown(@, "transport")]
              /\ UNCHANGED inp
  /\ UNCHANGED <<fsVars, link, acceptVars, workload, peerVars, busy_, buffer_size, out, acq>>

\* the chunk has been read: file.write and received += chunk_size
ReceiveFileReadChunk(o) ==
  LET s == ops[o].sess IN
  /\ ops[o].pc = "rf_chunk"
  /\ \E r \in PayloadOutcomes(s, ops[o].chunk_size) :
       IF r = "ok"
         THEN /\ inp' = [inp EXCEPT ![s] = Append(@, Frame(o, "chunk", ops[o].chunk_size))]
              /\ \E wrote \in BOOLEAN :
                   IF wrote
                     THEN \E next \in RecvLoop([ops[o] EXCEPT
                                 !.written = @ + ops[o].chunk_size,
                                 !.received = @ + ops[o].chunk_size]) :
                            ops' = [ops EXCEPT ![o] = next]
                     ELSE ops' = [ops EXCEPT ![o] = Thrown(@, "file write failed")]
         ELSE /\ ops' = [ops EXCEPT ![o] = Thrown(@, "transport")]
              /\ UNCHANGED inp
  /\ UNCHANGED <<fsVars, link, acceptVars, workload, peerVars, busy_, buffer_size, out, acq>>

Next ==
  \/ \E s \in SessionIds : CreateSession(s)
  \/ \E s \in SessionIds : Close(s)
  \/ ClearSessions
  \/ \E o \in OpIds : Start(o)
  \/ \E o \in OpIds : SendTreeAcquire(o)
  \/ \E o \in OpIds : SendTreeWriteSize(o)
  \/ \E o \in OpIds : SendTreeWritePayload(o)
  \/ \E o \in OpIds : ReceiveTreeAcquire(o)
  \/ \E o \in OpIds : ReceiveTreeReadSize(o)
  \/ \E o \in OpIds : ReceiveTreeReadPayload(o)
  \/ \E o \in OpIds : SendFileEnter(o)
  \/ \E o \in OpIds : SendFileWriteHdrSize(o)
  \/ \E o \in OpIds : SendFileWriteHdr(o)
  \/ \E o \in OpIds : SendFileWriteChunkSize(o)
  \/ \E o \in OpIds : SendFileWriteChunk(o)
  \/ \E o \in OpIds : ReceiveFileReadHdrSize(o)
  \/ \E o \in OpIds : ReceiveFileReadHdr(o)
  \/ \E o \in OpIds : ReceiveFileReadChunkSize(o)
  \/ \E o \in OpIds : ReceiveFileReadChunk(o)

\* every workload: operations run concurrently or alone
Spec == Init /\ [][Next]_vars

\* a peer on whose sessions one operation is invoked
InitSingle == Init /\ workload = "single"

SpecSingle == InitSingle /\ [][Next]_vars

\* a peer on whose sessions MaxOps operations run concurrently
InitConcurrent == Init /\ workload = "concurrent"

\* sendTree or receiveTree is invoked: Start with one of the two operations
\* that take part in the busy flag protocol
StartTree(o) ==
  /\ Start(o)
  /\ ops'[o].kind \in {"sendTree", "receiveTree"}

\* the handlers of operation o that the strand of its session runs: the
\* resumption after dispatch or post, and the completion handlers of its
\* asynchronous reads and writes (bound to strand_ by bind_executor)
OpStep(o) ==
  \/ SendTreeAcquire(o)
  \/ SendTreeWriteSize(o)
  \/ SendTreeWritePayload(o)
  \/ ReceiveTreeAcquire(o)
  \/ ReceiveTreeReadSize(o)
  \/ ReceiveTreeReadPayload(o)

\* sessions are created and closed while tree operations run on them
NextTrees ==
  \/ \E s \in SessionIds : CreateSession(s)
  \/ \E s \in SessionIds : Close(s)
  \/ ClearSessions
  \/ \E o \in OpIds : StartTree(o)
  \/ \E o \in OpIds : OpStep(o)

\* the strand runs every handler that is ready: no operation with a handler
\* to run is passed over for ever
StrandFair == \A o \in OpIds : WF_vars(OpStep(o))

SpecFair == InitConcurrent /\ [][NextTrees]_vars /\ StrandFair

\* a peer that accepts connections while one operation runs on its sessions
NextPeer ==
  \/ Next
  \/ DoAccept
  \/ AcceptComplete
  \/ AcceptHandler
  \/ CloseAcceptor

SpecPeer == InitSingle /\ [][NextPeer]_vars

\* ========================================================================
\* fstree: Node, DirectoryTree, diffTree and the wire format
\* ========================================================================
\* Bounds of the file systems that are scanned
\* name characters are the first MaxChar letters
MaxChar == 2

\* longest entry name
MaxNameLen == 1

\* file bytes are 1..MaxByte
MaxByte == 2

\* longest file
MaxFileLen == 1

\* number of distinct modification times
MaxMtime == 2

\* levels of entries below a root directory
MaxDepth == 2

\* entries below the root of a directory that is scanned on its own
MaxNodes == 2

\* entries below the root of each of two directories that are compared
MaxDiffNodes == 2

\* changes made to a directory after the start
MaxWrites == 1

Sides == {"A", "B"}



\* sequences over S of length 0..n
RECURSIVE SeqsUpTo(_, _)
SeqsUpTo(S, n) ==
  IF n = 0 THEN {<<>>}
  ELSE LET R == SeqsUpTo(S, n - 1)
       IN R \cup UNION {{Append(q, x) : x \in S} : q \in R}

\* characters are their codes: 'a' is 97, '.' is 46, '/' is 47
NameChars == {96 + i : i \in 1..MaxChar}

\* entry names (std::string, compared byte by byte)
Names == SeqsUpTo(NameChars, MaxNameLen) \ {<<>>}

\* the path components "." and ".."
DOT == <<46>>

DOTDOT == <<46, 46>>

FileContents == SeqsUpTo(1..MaxByte, MaxFileLen)

\* file_time_type counts ticks from the epoch of file_clock, which may lie
\* after the time of a write: counts are negative as well as positive
Mtimes == {-1} \cup 1..(MaxMtime - 1)

\* what a path of the file system leads to
FileEntry(c, m) == [kind |-> "file", content |-> c, mtime |-> m, entries |-> <<>>]

\* a socket, a fifo, a device, a dangling symlink
OtherEntry == [kind |-> "other", content |-> <<>>, mtime |-> 1, entries |-> <<>>]

DirEntry(m, e) == [kind |-> "dir", content |-> <<>>, mtime |-> m, entries |-> e]

NoEntry == [kind |-> "none", content |-> <<>>, mtime |-> 0, entries |-> <<>>]

FileEntries == {FileEntry(c, m) : c \in FileContents, m \in Mtimes}

\* EntriesWith(n, d, L): entries of at most n nodes and d levels, leaves in L
\* ContentsWith(n, d, L): directory contents of at most n nodes and d levels
RECURSIVE EntriesWith(_, _, _), ContentsWith(_, _, _)
EntriesWith(n, d, L) ==
  IF n < 1 \/ d < 1 THEN {}
  ELSE L \cup {DirEntry(m, e) : m \in Mtimes, e \in ContentsWith(n - 1, d - 1, L)}

ContentsWith(n, d, L) ==
  IF n < 1 \/ d < 1 THEN {<<>>}
  ELSE {<<>>} \cup UNION {UNION {
         {(nm :> e) @@ f : e \in EntriesWith(k, d, L),
                           f \in {g \in ContentsWith(n - k, d, L) : nm \notin DOMAIN g}}
         : nm \in Names} : k \in 1..n}

\* what may be found at a root path: a directory, a regular file, nothing
RootEntries(n, L) ==
  {DirEntry(m, e) : m \in Mtimes, e \in ContentsWith(n, MaxDepth, L)}
    \cup {FileEntry(<<>>, 1), NoEntry}

\* the entry at relative path p below entry e
RECURSIVE Lookup(_, _)
Lookup(e, p) ==
  IF p = <<>> THEN e
  ELSE IF e.kind = "dir" /\ Head(p) \in DOMAIN e.entries
         THEN Lookup(e.entries[Head(p)], Tail(p))
         ELSE NoEntry

\* relative paths of all entries below e
RECURSIVE PathsBelow(_)
PathsBelow(e) ==
  UNION {{<<nm>>} \cup {<<nm>> \o p : p \in PathsBelow(e.entries[nm])} : nm \in DOMAIN e.entries}

\* entry e with the entry at relative path p replaced by n
RECURSIVE Replace(_, _, _)
Replace(e, p, n) ==
  IF p = <<>> THEN n
  ELSE [e EXCEPT !.entries = (Head(p) :> Replace(e.entries[Head(p)], Tail(p), n)) @@ e.entries]

\* entry e without the entry at relative path p
RECURSIVE Remove(_, _)
Remove(e, p) ==
  IF Len(p) = 1
    THEN [e EXCEPT !.entries = [nm \in DOMAIN e.entries \ {p[1]} |-> e.entries[nm]]]
    ELSE [e EXCEPT !.entries = (Head(p) :> Remove(e.entries[Head(p)], Tail(p))) @@ e.entries]

\* the directory each side scans: an absolute path of one component
RootPath(x) == IF x = "A" THEN << <<97>> >> ELSE << <<98>> >>

\* orders in which directory_iterator may enumerate entries
Orders ==
  {q \in [1..Cardinality(Names) -> Names] : \A i, j \in DOMAIN q : q[i] = q[j] => i = j}

\* ------------------------------------------------------------------------
\* Node
\* ------------------------------------------------------------------------
\* a path is the sequence of its components; path::filename()
Filename(p) == IF p = <<>> THEN <<>> ELSE p[Len(p)]

\* sizeof(Hash)
HashSize == 32

\* file_hash is std::optional<Hash>: <<>> or the one-element sequence of a
\* digest.  SHA256 stands for the digest function: HashSize bytes, different
\* for different contents
SHA256(c) == <<Len(c)>> \o c \o [i \in 1..(HashSize - 1 - Len(c)) |-> 0]

NoNode == [path |-> <<>>, name |-> <<>>, type |-> "None", mtime |-> 0, size |-> 0,
           file_hash |-> <<>>, kids |-> <<>>]

\* Node::Node(type, path, data): name and mtime are read from the path
NewNode(type, p, e, size, kids) ==
  [path |-> p, name |-> Filename(p), type |-> type, mtime |-> e.mtime, size |-> size,
   file_hash |-> <<>>, kids |-> kids]

Ok(n) == [ok |-> TRUE, what |-> "", node |-> n]

FailedAsEmptyDir(w) ==
  [ok |-> TRUE, what |-> w, node |-> [NoNode EXCEPT !.type = "Directory"]]

\* a throw with message w: nothing is returned
Failed(w) == [ok |-> FALSE, what |-> w, node |-> NoNode]

\* Node::file
NodeFile(e, p) ==
  IF e.kind # "file"
    THEN Failed("Path must point to a file.")
    ELSE Ok(NewNode("File", p, e, Len(e.content), <<>>))

\* std::string operator<
RECURSIVE LexLess(_, _)
LexLess(a, b) ==
  IF b = <<>> THEN FALSE
  ELSE IF a = <<>> THEN TRUE
  ELSE IF a[1] # b[1] THEN a[1] < b[1]
  ELSE LexLess(Tail(a), Tail(b))

\* the comparator Node::directory sorts its children with
NodeLessByName(a, b) == LexLess(a.name, b.name)

NodeLess(a, b) ==
  IF a.type # b.type THEN a.type = "Directory" ELSE LexLess(a.name, b.name)

\* std::sort with NodeLess
RECURSIVE SortInsert(_, _)
SortInsert(q, x) ==
  IF q = <<>> THEN <<x>>
  ELSE IF NodeLess(x, q[1]) THEN <<x>> \o q
  ELSE <<q[1]>> \o SortInsert(Tail(q), x)

RECURSIVE Sort(_)
Sort(q) == IF q = <<>> THEN <<>> ELSE SortInsert(Sort(Tail(q)), q[1])

\* the entries fs::directory_iterator hands to the loop of Node::directory,
\* enumerating in the order ord
Listing(e, ord) == SelectSeq(ord, LAMBDA nm : nm \in DOMAIN e.entries)

\* Node::directory on entry e found at path p
RECURSIVE NodeDirectory(_, _, _)
NodeDirectory(e, p, ord) ==
  IF e.kind # "dir"
    THEN Failed("Path must point a directory.")
    ELSE LET listing == Listing(e, ord)
             child(nm) == IF e.entries[nm].kind = "file"
                            THEN NodeFile(e.entries[nm], Append(p, nm))
                            ELSE NodeDirectory(e.entries[nm], Append(p, nm), ord)
             results == [i \in 1..Len(listing) |-> child(listing[i])]
             bad == {i \in 1..Len(listing) : ~results[i].ok}
         IN IF bad # {}
              THEN results[CHOOSE i \in bad : \A j \in bad : i <= j]
              ELSE Ok(NewNode("Directory", p, e, 0,
                              Sort([i \in 1..Len(listing) |-> results[i].node])))

\* ------------------------------------------------------------------------
\* DirectoryTree
\* ------------------------------------------------------------------------
RECURSIVE CommonPrefix(_, _)
CommonPrefix(p, q) ==
  IF p = <<>> \/ q = <<>> THEN 0
  ELSE IF p[1] # q[1] THEN 0
  ELSE 1 + CommonPrefix(Tail(p), Tail(q))

LexicallyRelativeEmptyRoot(p, base) == SubSeq(p, CommonPrefix(p, base) + 1, Len(p))

\* fs::relative(p, base) for paths without symlinks: path::lexically_relative
LexicallyRelative(p, base) ==
  LET k == CommonPrefix(p, base)
  IN IF k = Len(p) /\ k = Len(base)
       THEN <<DOT>>
       ELSE [i \in 1..(Len(base) - k) |-> DOTDOT] \o SubSeq(p, k + 1, Len(p))

\* DirectoryTree::buildIndex on the node at address addr (the positions to
\* follow from the root, standing for the Node* the index stores);
\* the result is the node with its paths rewritten, and the index
RECURSIVE buildIndex(_, _, _, _), buildIndexKids(_, _, _, _, _)
buildIndex(node, addr, root_path, index) ==
  LET rel == LexicallyRelative(node.path, root_path)
      below == buildIndexKids(node.kids, 1, addr, root_path, (rel :> addr) @@ index)
  IN [node |-> [node EXCEPT !.path = rel, !.kids = below.kids], index |-> below.index]

buildIndexKids(kids, i, addr, root_path, index) ==
  IF i > Len(kids) THEN [kids |-> kids, index |-> index]
  ELSE LET r == buildIndex(kids[i], Append(addr, i), root_path, index)
       IN buildIndexKids([kids EXCEPT ![i] = r.node], i + 1, addr, root_path, r.index)

NoTree == [status |-> "none", root_path |-> <<>>, root |-> NoNode, index |-> <<>>,
           scan |-> "none", what |-> ""]

\* DirectoryTree::DirectoryTree(dir_path, node)
DirectoryTreeOf(dir_path, node) ==
  LET b == buildIndex(node, <<>>, dir_path, <<>>)
  IN [status |-> "ok", root_path |-> dir_path, root |-> b.node, index |-> b.index,
      scan |-> "ok", what |-> ""]

\* the node at address addr below node
RECURSIVE NodeAt(_, _)
NodeAt(node, addr) ==
  IF addr = <<>> THEN node ELSE NodeAt(node.kids[Head(addr)], Tail(addr))

\* addresses of node and of all nodes below it
RECURSIVE Addrs(_)
Addrs(node) ==
  {<<>>} \cup UNION {{<<i>> \o a : a \in Addrs(node.kids[i])} : i \in DOMAIN node.kids}

\* node with the node at address addr replaced by n
RECURSIVE PutNode(_, _, _)
PutNode(node, addr, n) ==
  IF addr = <<>> THEN n
  ELSE [node EXCEPT !.kids[Head(addr)] = PutNode(node.kids[Head(addr)], Tail(addr), n)]

\* Node::generate_hash(root) on node, with e the entry at the root path;
\* reads are the relative paths of the files it opens
generate_hash_always(node, e) ==
  IF node.type # "File" THEN [ok |-> TRUE, node |-> node, reads |-> <<>>]
  ELSE LET f == Lookup(e, node.path)
       IN IF f.kind # "file"
            THEN [ok |-> FALSE, node |-> node, reads |-> <<node.path>>]
            ELSE [ok |-> TRUE, node |-> [node EXCEPT !.file_hash = <<SHA256(f.content)>>],
                  reads |-> <<node.path>>]

generate_hash(node, e) ==
  IF node.type # "File" THEN [ok |-> TRUE, node |-> node, reads |-> <<>>]
  ELSE IF node.file_hash # <<>> THEN [ok |-> TRUE, node |-> node, reads |-> <<>>]
  ELSE LET f == Lookup(e, node.path)
       IN IF f.kind # "file"
            THEN [ok |-> FALSE, node |-> node, reads |-> <<node.path>>]
            ELSE [ok |-> TRUE, node |-> [node EXCEPT !.file_hash = <<SHA256(f.content)>>],
                  reads |-> <<node.path>>]

\* ------------------------------------------------------------------------
\* Operations on a tree
\* ------------------------------------------------------------------------
NoDiff == [status |-> "none", recs |-> <<>>, pairs |-> <<>>]

NoCall == [op |-> "none", addr |-> <<>>, before |-> NoNode, reads |-> <<>>]

NoWire == [status |-> "none", sent |-> NoNode, bytes |-> <<>>, node |-> NoNode,
           cut |-> FALSE]

NoXfer == [status |-> "none", path |-> <<>>, chunk_size |-> 0, stream |-> <<>>, err |-> "",
           written |-> {}]

\* tree[x] = DirectoryTree(root path of x): the assignment happens only if
\* the constructor returns; scan and what record how the last call ended
Scan(x) ==
  /\ \E ord \in Orders, io \in {"ok", "filesystem_error"} :
       LET r == IF io = "ok" THEN NodeDirectory(disk[x], RootPath(x), ord) ELSE Failed(io)
       IN tree' = [tree EXCEPT ![x] =
                     IF r.ok
                       THEN DirectoryTreeOf(RootPath(x), r.node)
                       ELSE [tree[x] EXCEPT !.scan = "error", !.what = r.what]]
  /\ last_call' = NoCall
  /\ UNCHANGED <<netVars, xfer, disk, nwrites, diffs, wire>>

\* another process rewrites the file at relative path p
WriteFile(x, p) ==
  /\ nwrites < MaxWrites
  /\ disk[x].kind = "dir"
  /\ p \in PathsBelow(disk[x])
  /\ Lookup(disk[x], p).kind = "file"
  /\ \E f \in FileEntries : disk' = [disk EXCEPT ![x] = Replace(disk[x], p, f)]
  /\ nwrites' = nwrites + 1
  /\ last_call' = NoCall
  /\ UNCHANGED <<netVars, xfer, tree, diffs, wire>>

\* another process removes the entry at relative path p
RemoveEntry(x, p) ==
  /\ nwrites < MaxWrites
  /\ disk[x].kind = "dir"
  /\ p \in PathsBelow(disk[x])
  /\ disk' = [disk EXCEPT ![x] = Remove(disk[x], p)]
  /\ nwrites' = nwrites + 1
  /\ last_call' = NoCall
  /\ UNCHANGED <<netVars, xfer, tree, diffs, wire>>

\* tree[x].index.at(path)->generate_hash(tree[x].root_path), for the node
\* at address addr
CallGenerateHash(x, addr) ==
  /\ tree[x].status = "ok"
  /\ addr \in Addrs(tree[x].root)
  /\ LET r == generate_hash(NodeAt(tree[x].root, addr), disk[x])
     IN /\ tree' = [tree EXCEPT ![x].root = PutNode(tree[x].root, addr, r.node)]
        /\ last_call' = [op |-> "generate_hash", addr |-> addr,
                         before |-> NodeAt(tree[x].root, addr), reads |-> r.reads]
  /\ UNCHANGED <<netVars, xfer, disk, nwrites, diffs, wire>>

\* ------------------------------------------------------------------------
\* fstree::wire and the serialization of a node
\* ------------------------------------------------------------------------
\* the n bytes of the object representation of integer v, lowest first
\* (two's complement for negative v)
RECURSIVE ToBytes(_, _)
ToBytes(v, n) == IF n = 0 THEN <<>> ELSE <<v % 256>> \o ToBytes(v \div 256, n - 1)

\* the unsigned integer whose object representation is b
RECURSIVE Unsigned(_)
Unsigned(b) == IF b = <<>> THEN 0 ELSE b[1] + 256 * Unsigned(Tail(b))

\* the signed integer whose object representation is b: the conversion of
\* a uint64_t to the rep of file_time_type::duration
Signed(b) ==
  IF b[Len(b)] < 128
    THEN Unsigned(b)
    ELSE 0 - (1 + Unsigned([i \in DOMAIN b |-> 255 - b[i]]))

write_u8(v) == ToBytes(v, 1)

write_u32(v) == ToBytes(v, 4)

write_u64(v) == ToBytes(v, 8)

write_string(str) == write_u32(Len(str)) \o str

\* is.read of n bytes into an integer at position pos of bytes: when the
\* stream ends early, or has failed before, the integer keeps the
\* indeterminate value g it was declared with
ReadInt(bytes, pos, n, g, signed) ==
  IF pos + n - 1 <= Len(bytes)
    THEN [val |-> IF signed THEN Signed(SubSeq(bytes, pos, pos + n - 1))
                            ELSE Unsigned(SubSeq(bytes, pos, pos + n - 1)),
          pos |-> pos + n, short |-> FALSE]
    ELSE [val |-> g, pos |-> Len(bytes) + 1, short |-> TRUE]

read_u8(bytes, pos, g) == ReadInt(bytes, pos, 1, g, FALSE)

read_u32(bytes, pos, g) == ReadInt(bytes, pos, 4, g, FALSE)

read_u64(bytes, pos, g) == ReadInt(bytes, pos, 8, g, FALSE)

\* is.read of n bytes into a buffer of n zero bytes
ReadBytes(bytes, pos, n) ==
  IF pos + n - 1 <= Len(bytes)
    THEN [val |-> SubSeq(bytes, pos, pos + n - 1), pos |-> pos + n, short |-> FALSE]
    ELSE [val |-> [i \in 1..n |-> IF pos + i - 1 <= Len(bytes) THEN bytes[pos + i - 1] ELSE 0],
          pos |-> Len(bytes) + 1, short |-> n > 0]

read_string(bytes, pos, g) ==
  LET len == read_u32(bytes, pos, g)
      str == ReadBytes(bytes, len.pos, len.val)
  IN [val |-> str.val, pos |-> str.pos, short |-> len.short \/ str.short]

\* the components of path p joined with sep between them
RECURSIVE Join(_, _)
Join(p, sep) ==
  IF p = <<>> THEN <<>>
  ELSE IF Len(p) = 1 THEN p[1]
  ELSE p[1] \o sep \o Join(Tail(p), sep)

\* path::string()
PathStringNoSep(p) == Join(p, <<>>)

PathString(p) == Join(p, <<47>>)

\* fs::path(str): the components of a relative path written with '/'
RECURSIVE Split(_, _)
Split(str, cur) ==
  IF str = <<>> THEN (IF cur = <<>> THEN <<>> ELSE <<cur>>)
  ELSE IF str[1] = 47
         THEN (IF cur = <<>> THEN <<>> ELSE <<cur>>) \o Split(Tail(str), <<>>)
         ELSE Split(Tail(str), Append(cur, str[1]))

PathOf(str) == Split(str, <<>>)

\* static_cast<uint8_t>(NodeType) and back
TypeCode(type) == IF type = "File" THEN 0 ELSE 1

TypeOf(code) == IF code = 0 THEN "File" ELSE IF code = 1 THEN "Directory" ELSE "Invalid"

\* serializeNode
RECURSIVE serializeNode(_), serializeKids(_)
serializeNode(node) ==
  write_u8(TypeCode(node.type))
    \o write_u64(node.mtime)
    \o write_string(node.name)
    \o write_string(PathString(node.path))
    \o IF node.type = "File"
         THEN write_u64(node.size)
                \o write_u8(IF node.file_hash # <<>> THEN 1 ELSE 0)
                \o (IF node.file_hash # <<>> THEN node.file_hash[1] ELSE <<>>)
         ELSE write_u32(Len(node.kids)) \o serializeKids(node.kids)

serializeKids(kids) ==
  IF kids = <<>> THEN <<>> ELSE serializeNode(kids[1]) \o serializeKids(Tail(kids))

\* deserializeNode reading bytes from position pos: the node, the position
\* after it, whether any read came up short, and whether the recursion
\* never ends
RECURSIVE deserializeNode(_, _, _), deserializeKids(_, _, _, _, _)
deserializeNode(bytes, pos, g) ==
  LET type == read_u8(bytes, pos, g)
      mtime == ReadInt(bytes, type.pos, 8, g, TRUE)
      name == read_string(bytes, mtime.pos, g)
      full_path == read_string(bytes, name.pos, g)
      head == [NoNode EXCEPT !.type = TypeOf(type.val), !.mtime = mtime.val,
                             !.name = name.val, !.path = PathOf(full_path.val)]
      short == type.short \/ mtime.short \/ name.short \/ full_path.short
  IN IF type.val = 0
       THEN LET size == read_u64(bytes, full_path.pos, g)
                has_hash == read_u8(bytes, size.pos, g)
                hash == ReadBytes(bytes, has_hash.pos, HashSize)
            IN IF has_hash.val # 0
                 THEN [node |-> [head EXCEPT !.size = size.val, !.file_hash = <<hash.val>>],
                       pos |-> hash.pos,
                       short |-> short \/ size.short \/ has_hash.short \/ hash.short,
                       endless |-> FALSE]
                 ELSE [node |-> [head EXCEPT !.size = size.val],
                       pos |-> has_hash.pos,
                       short |-> short \/ size.short \/ has_hash.short,
                       endless |-> FALSE]
       ELSE LET count == read_u32(bytes, full_path.pos, g)
                kids == deserializeKids(bytes, count.pos, count.val, g, <<>>)
            IN [node |-> [head EXCEPT !.kids = kids.kids],
                pos |-> kids.pos,
                short |-> short \/ count.short \/ kids.short,
                endless |-> kids.endless]

\* for (i = 0; i < count; i++) kids.push_back(deserializeNode(is)); once
\* the stream has ended every read leaves the indeterminate value g: with
\* g # 0 the node read is not a File and has g children, each of them read
\* the same way, and the recursion does not end
deserializeKids(bytes, pos, count, g, kids) ==
  IF Len(kids) >= count THEN [kids |-> kids, pos |-> pos, short |-> FALSE, endless |-> FALSE]
  ELSE IF pos > Len(bytes) /\ g # 0
    THEN [kids |-> kids, pos |-> pos, short |-> TRUE, endless |-> TRUE]
  ELSE LET kid == deserializeNode(bytes, pos, g)
           rest == IF kid.endless
                     THEN [kids |-> kids, pos |-> kid.pos, short |-> TRUE, endless |-> TRUE]
                     ELSE deserializeKids(bytes, kid.pos, count, g, Append(kids, kid.node))
       IN [rest EXCEPT !.short = kid.short \/ rest.short]

\* serializeTree: the serialization of the root node
serializeTree(t) == serializeNode(t.root)

\* deserializeTree: the tree of the node the buffer holds
deserializeTree(bytes, g) == deserializeNode(bytes, 1, g)

\* buffer_ = serializeTree(tree[x])
Serialize(x) ==
  /\ tree[x].status = "ok"
  /\ wire' = [status |-> "sent", sent |-> tree[x].root,
              bytes |-> serializeTree(tree[x]), node |-> NoNode, cut |-> FALSE]
  /\ last_call' = NoCall
  /\ UNCHANGED <<netVars, xfer, disk, nwrites, tree, diffs>>

\* the values an integer that was declared and never written may hold
Garbage == {0, 1}

\* the buffer a receiver holds is the beginning of a serialization only
Truncate ==
  /\ wire.status = "sent"
  /\ ~wire.cut
  /\ \E k \in 0..(Len(wire.bytes) - 1) :
       wire' = [wire EXCEPT !.bytes = SubSeq(wire.bytes, 1, k), !.cut = TRUE]
  /\ last_call' = NoCall
  /\ UNCHANGED <<netVars, xfer, disk, nwrites, tree, diffs>>

\* deserializeTree(buffer_): the tree it returns, unless the recursion
\* exhausts the stack
Deserialize ==
  /\ wire.status = "sent"
  /\ \E g \in Garbage :
       LET r == deserializeTree(wire.bytes, g)
       IN wire' = [wire EXCEPT !.status = IF r.endless THEN "overflow" ELSE "received",
                               !.node = IF r.endless THEN NoNode ELSE r.node]
  /\ last_call' = NoCall
  /\ UNCHANGED <<netVars, xfer, disk, nwrites, tree, diffs>>

\* ------------------------------------------------------------------------
\* NodeSnapshot, NodeDiff, diffTree
\* ------------------------------------------------------------------------
\* NodeSnapshot::NodeSnapshot(node)
NodeSnapshot(node) ==
  [path |-> node.path, type |-> node.type, mtime |-> node.mtime,
   size |-> IF node.type = "File" THEN node.size ELSE 0,
   file_hash |-> IF node.type = "File" THEN node.file_hash ELSE <<>>]

\* NodeDiff::added, deleted, modified; std::optional is <<>> or <<value>>
added(new_node) == [type |-> "Added", old_node |-> <<>>, new_node |-> <<NodeSnapshot(new_node)>>]

deleted(old_node) == [type |-> "Deleted", old_node |-> <<NodeSnapshot(old_node)>>, new_node |-> <<>>]

modified(old_node, new_node) ==
  [type |-> "Modified", old_node |-> <<NodeSnapshot(old_node)>>,
   new_node |-> <<NodeSnapshot(new_node)>>]

\* the state of a diffTree call: the root nodes of the two trees, the
\* vector of records, the files opened, whether an exception is in flight;
\* alias says that old_tree and new_tree are one object; pairs lists the
\* positions old_it and new_it had whenever the loop found their paths equal
DiffStart(old_root, new_root, alias) ==
  [old |-> old_root, new |-> new_root, alias |-> alias, out |-> <<>>, reads |-> <<>>,
   ok |-> TRUE, pairs |-> <<>>]

\* (*old_it)->path == (*new_it)->path held with old_it at oa and new_it at na
Paired(st, oa, na) == [st EXCEPT !.pairs = Append(@, <<oa, na>>)]

Emit(st, rec) == [st EXCEPT !.out = Append(@, rec)]

\* (*old_it)->generate_hash(old_tree.root_path), old_it at address a
HashOld(st, a, e) ==
  LET r == generate_hash(NodeAt(st.old, a), e)
      root == PutNode(st.old, a, r.node)
  IN [st EXCEPT !.old = root, !.new = IF st.alias THEN root ELSE @,
                !.reads = @ \o r.reads, !.ok = r.ok]

HashNewSkipped(st, a, e) == st

\* (*new_it)->generate_hash(new_tree.root_path), new_it at address a
HashNew(st, a, e) ==
  LET r == generate_hash(NodeAt(st.new, a), e)
      root == PutNode(st.new, a, r.node)
  IN [st EXCEPT !.new = root, !.old = IF st.alias THEN root ELSE @,
                !.reads = @ \o r.reads, !.ok = r.ok]

\* old_it_meta.file_hash != new_it_meta.file_hash
HashPresent(o, n) == o.file_hash # <<>>

HashDiffersNever(o, n) == FALSE

HashDiffersOrMtime(o, n) == o.file_hash # n.file_hash \/ o.mtime # n.mtime

HashDiffers(o, n) == o.file_hash # n.file_hash

SizeAny(o, n) == TRUE

\* old_it_meta.size == new_it_meta.size
SizeEqual(o, n) == o.size = n.size

\* whether the two-pointer loop takes the old entry first when the paths differ
OldFirst(o, n) == LexLess(o.name, n.name)

\* diffLoop on the directories at addresses oa of the old tree and na of
\* the new one, with old_it at child i and new_it at child j; eo and en are
\* what the two root paths hold
RECURSIVE diffLoop(_, _, _, _, _, _, _)
diffLoop(st0, oa, na, i, j, eo, en) ==
  LET old_vec == NodeAt(st0.old, oa).kids
      new_vec == NodeAt(st0.new, na).kids
  IN IF ~st0.ok THEN st0
     ELSE IF i <= Len(old_vec) /\ j <= Len(new_vec)
       THEN LET o == old_vec[i]
                n == new_vec[j]
                st == IF o.path = n.path THEN Paired(st0, Append(oa, i), Append(na, j))
                      ELSE st0
            IN IF o.path = n.path
                 THEN IF o.type # n.type
                        THEN diffLoop(Emit(st, modified(o, n)), oa, na, i + 1, j + 1, eo, en)
                      ELSE IF o.type = "File"
                        THEN IF SizeEqual(o, n)
                               THEN LET h1 == HashOld(st, Append(oa, i), eo)
                                        h2 == IF h1.ok THEN HashNew(h1, Append(na, j), en) ELSE h1
                                        o2 == NodeAt(h2.old, Append(oa, i))
                                        n2 == NodeAt(h2.new, Append(na, j))
                                    IN IF ~h2.ok THEN h2
                                       ELSE IF HashDiffers(o2, n2)
                                         THEN diffLoop(Emit(h2, modified(o2, n2)),
                                                       oa, na, i + 1, j + 1, eo, en)
                                         ELSE diffLoop(h2, oa, na, i + 1, j + 1, eo, en)
                               ELSE diffLoop(Emit(st, modified(o, n)), oa, na, i + 1, j + 1, eo, en)
                      ELSE diffLoop(diffLoop(st, Append(oa, i), Append(na, j), 1, 1, eo, en),
                                    oa, na, i + 1, j + 1, eo, en)
               ELSE IF OldFirst(o, n)
                 THEN diffLoop(Emit(st, deleted(o)), oa, na, i + 1, j, eo, en)
                 ELSE diffLoop(Emit(st, added(n)), oa, na, i, j + 1, eo, en)
     ELSE IF i <= Len(old_vec)
       THEN diffLoop(Emit(st0, deleted(old_vec[i])), oa, na, i + 1, j, eo, en)
     ELSE IF j <= Len(new_vec)
       THEN diffLoop(Emit(st0, added(new_vec[j])), oa, na, i, j + 1, eo, en)
     ELSE st0

\* diffTree(old_tree, new_tree)
diffTree(old_tree, new_tree, alias, eo, en) ==
  diffLoop(DiffStart(old_tree.root, new_tree.root, alias), <<>>, <<>>, 1, 1, eo, en)

\* diffs[<<x, y>>] = diffTree(tree[x], tree[y]): the records it returned,
\* unless it threw
Diff(x, y) ==
  /\ tree[x].status = "ok"
  /\ tree[y].status = "ok"
  /\ LET r == diffTree(tree[x], tree[y], x = y, disk[x], disk[y])
     IN /\ tree' = [z \in Sides |-> IF z = x THEN [tree[z] EXCEPT !.root = r.old]
                                    ELSE IF z = y THEN [tree[z] EXCEPT !.root = r.new]
                                    ELSE tree[z]]
        /\ diffs' = [diffs EXCEPT ![<<x, y>>] =
                       [status |-> IF r.ok THEN "ok" ELSE "error",
                        recs |-> IF r.ok THEN r.out ELSE <<>>,
                        pairs |-> r.pairs]]
        /\ last_call' = [op |-> "diffTree", addr |-> <<>>, before |-> NoNode, reads |-> r.reads]
  /\ UNCHANGED <<netVars, xfer, disk, nwrites, wire>>

\* ------------------------------------------------------------------------
\* One directory: scanned, hashed and changed by others meanwhile
\* ------------------------------------------------------------------------
FsStart ==
  /\ nwrites = 0
  /\ tree = [x \in Sides |-> NoTree]
  /\ last_call = NoCall
  /\ diffs = [pr \in Sides \X Sides |-> NoDiff]
  /\ wire = NoWire
  /\ xfer = NoXfer

InitTree ==
  /\ SessionInit
  /\ workload = "single"
  /\ \E a \in RootEntries(MaxNodes, FileEntries \cup {OtherEntry}) :
       disk = [x \in Sides |-> IF x = "A" THEN a ELSE NoEntry]
  /\ FsStart

NextTree ==
  \/ Scan("A")
  \/ \E p \in PathsBelow(disk["A"]) : WriteFile("A", p)
  \/ \E p \in PathsBelow(disk["A"]) : RemoveEntry("A", p)
  \/ \E addr \in Addrs(tree["A"].root) : CallGenerateHash("A", addr)
  \/ diffs[<<"A", "A">>].status = "none" /\ Diff("A", "A")

SpecTree == InitTree /\ [][NextTree]_vars


\* ------------------------------------------------------------------------
\* One directory: scanned, hashed in part, sent and received
\* ------------------------------------------------------------------------
InitWire ==
  /\ SessionInit
  /\ workload = "single"
  /\ \E a \in RootEntries(MaxNodes, FileEntries) :
       disk = [x \in Sides |-> IF x = "A" THEN a ELSE NoEntry]
  /\ FsStart

NextWire ==
  \/ tree["A"].status = "none" /\ Scan("A")
  \/ wire.status = "none" /\ \E addr \in Addrs(tree["A"].root) : CallGenerateHash("A", addr)
  \/ wire.status = "none" /\ Serialize("A")
  \/ Deserialize

SpecWire == InitWire /\ [][NextWire]_vars

\* ------------------------------------------------------------------------
\* One directory: scanned, sent, and a beginning of the bytes received
\* ------------------------------------------------------------------------
NextShort ==
  \/ tree["A"].status = "none" /\ Scan("A")
  \/ wire.status = "none" /\ \E addr \in Addrs(tree["A"].root) : CallGenerateHash("A", addr)
  \/ wire.status = "none" /\ Serialize("A")
  \/ Truncate
  \/ wire.cut /\ Deserialize

SpecShort == InitWire /\ [][NextShort]_vars


\* ------------------------------------------------------------------------
\* Two directories: each scanned once, then compared in both directions
\* ------------------------------------------------------------------------
DiffRoots == {DirEntry(1, e) : e \in ContentsWith(MaxDiffNodes, MaxDepth, FileEntries)}

InitDiff ==
  /\ SessionInit
  /\ workload = "single"
  /\ disk \in [Sides -> DiffRoots]
  /\ FsStart

NextDiff ==
  \/ tree["A"].status = "none" /\ Scan("A")
  \/ tree["A"].status = "ok" /\ tree["B"].status = "none" /\ Scan("B")
  \/ diffs[<<"A", "B">>].status = "none" /\ Diff("A", "B")
  \/ diffs[<<"B", "A">>].status = "none" /\ Diff("B", "A")

SpecDiff == InitDiff /\ [][NextDiff]_vars


\* ------------------------------------------------------------------------
\* A file sent with Session::sendFile and received with Session::receiveFile
\* ------------------------------------------------------------------------
\* bytes of the longest file sent
MaxXferLen == 2

\* htobe64, htobe32 followed by the write of the object representation, and
\* back: the bytes on the stream, highest first
Swap(b) == [i \in 1..Len(b) |-> b[Len(b) + 1 - i]]

htobe64(v) == Swap(ToBytes(v, 8))

htobe32(v) == Swap(ToBytes(v, 4))

be64toh(b) == Unsigned(Swap(b))

be32toh(b) == Unsigned(Swap(b))

SendFailed(why) == [ok |-> FALSE, err |-> why, stream |-> <<>>]

\* the loop of sendFile over the bytes the file holds: to_read bytes are
\* read and written behind their length, until remaining is 0; file.read
\* fails when the file ends before
RECURSIVE SendChunks(_, _, _)
SendChunks(content, remaining, chunk_size) ==
  IF remaining = 0 THEN [ok |-> TRUE, stream |-> <<>>]
  ELSE LET to_read == ToRead(remaining, chunk_size) IN
       IF Len(content) < to_read THEN [ok |-> FALSE, stream |-> <<>>]
       ELSE LET rest == SendChunks(SubSeq(content, to_read + 1, Len(content)),
                                   remaining - to_read, chunk_size)
            IN [ok |-> rest.ok,
                stream |-> htobe32(to_read) \o SubSeq(content, 1, to_read) \o rest.stream]

\* Session::sendFile(tree, node, chunk_size) on a transport that does not
\* fail, e being what tree.root_path holds: the bytes written to the socket
sendFile(e, node, chunk_size) ==
  IF ~ChunkArgOk(chunk_size) THEN SendFailed("invalid chunk size")
  ELSE IF node.type # "File" THEN SendFailed("bad_variant_access")
  ELSE LET f == Lookup(e, node.path) IN
       IF f.kind # "file" THEN SendFailed("failed to open file")
       ELSE LET file_size == node.size
                header_buf == write_string(PathString(node.path)) \o write_u64(file_size)
                chunks == SendChunks(f.content, file_size, chunk_size)
            IN [ok |-> chunks.ok,
                err |-> IF chunks.ok THEN "" ELSE "file read failed",
                stream |-> htobe64(Len(header_buf)) \o header_buf \o chunks.stream]

\* fs::path::parent_path of a path given by its components
parent_path(p) == SubSeq(p, 1, Len(p) - 1)

\* fs::path::is_absolute and has_filename of the path written str
is_absolute(str) == str # <<>> /\ str[1] = 47

has_filename(str) == str # <<>> /\ str[Len(str)] # 47

\* the file system around a root directory: host is the directory "/", a
\* location is the sequence of names that leads from "/" to an entry
HostOf(e, root_path) == DirEntry(1, (root_path[1] :> e))

\* the directory host with entry f at location p, whose parent exists
RECURSIVE PutFile(_, _, _)
PutFile(e, p, f) ==
  IF Len(p) = 1 THEN [e EXCEPT !.entries = (p[1] :> f) @@ e.entries]
  ELSE [e EXCEPT !.entries = (Head(p) :> PutFile(e.entries[Head(p)], Tail(p), f)) @@ e.entries]

\* fs::create_directories of the path that continues location loc with the
\* components parts: the operating system resolves "." and ".." as it walks,
\* missing directories are made (their locations are added to made), an
\* existing entry that is not a directory is an error
RECURSIVE create_directories(_, _, _, _)
create_directories(host, loc, parts, made) ==
  IF parts = <<>> THEN [ok |-> TRUE, host |-> host, loc |-> loc, made |-> made]
  ELSE IF Head(parts) = DOT THEN create_directories(host, loc, Tail(parts), made)
  ELSE IF Head(parts) = DOTDOT
    THEN create_directories(host, parent_path(loc), Tail(parts), made)
  ELSE LET at == Append(loc, Head(parts))
           found == Lookup(host, at)
       IN IF found.kind = "none"
            THEN create_directories(PutFile(host, at, DirEntry(1, <<>>)), at, Tail(parts),
                                    made \cup {at})
          ELSE IF found.kind = "dir"
            THEN create_directories(host, at, Tail(parts), made)
          ELSE [ok |-> FALSE, host |-> host, loc |-> loc, made |-> made]

\* the loop of receiveFile over the rest of the stream: chunks are read and
\* written until received reaches file_size
RECURSIVE RecvChunks(_, _, _, _)
RecvChunks(stream, file_size, received, content) ==
  IF ~(received < file_size) THEN [ok |-> TRUE, err |-> "", content |-> content]
  ELSE IF Len(stream) < 4 THEN [ok |-> FALSE, err |-> "transport", content |-> content]
  ELSE LET chunk_size == be32toh(SubSeq(stream, 1, 4)) IN
       IF ~ChunkSizeOk(chunk_size)
         THEN [ok |-> FALSE, err |-> "chunk too large", content |-> content]
       ELSE IF Len(stream) < 4 + chunk_size
         THEN [ok |-> FALSE, err |-> "transport", content |-> content]
       ELSE RecvChunks(SubSeq(stream, 5 + chunk_size, Len(stream)), file_size,
                       received + chunk_size,
                       content \o SubSeq(stream, 5, 4 + chunk_size))

RecvFailed(host, why, written) ==
  [ok |-> FALSE, err |-> why, host |-> host, rel_path |-> <<>>, written |-> written]

\* where abs_path = tree.root_path / rel_path starts to be resolved: an
\* absolute rel_path replaces root_path
AbsStart(rel, root_path) == IF is_absolute(rel) THEN <<>> ELSE root_path

\* Session::receiveFile(tree) up to file.close(), reading stream, in the
\* file system host where tree.root_path is the location root_path: the file
\* system afterwards and the locations it made or truncated
receiveFile(stream, host, root_path, g) ==
  IF Len(stream) < 8 THEN RecvFailed(host, "transport", {})
  ELSE LET hdr_size == be64toh(SubSeq(stream, 1, 8)) IN
       IF ~HdrSizeOk(hdr_size) THEN RecvFailed(host, "header too large", {})
       ELSE IF Len(stream) < 8 + hdr_size THEN RecvFailed(host, "transport", {})
       ELSE LET hdr_buf == SubSeq(stream, 9, 8 + hdr_size)
                rel == read_string(hdr_buf, 1, g)
                file_size == read_u64(hdr_buf, rel.pos, g)
                rel_path == PathOf(rel.val)
                dirs == IF has_filename(rel.val) THEN parent_path(rel_path) ELSE rel_path
                made == create_directories(host, AbsStart(rel.val, root_path), dirs, {})
            IN IF ~made.ok THEN RecvFailed(made.host, "create_directories failed", made.made)
               ELSE IF ~has_filename(rel.val) \/ rel_path[Len(rel_path)] \in {DOT, DOTDOT}
                 THEN RecvFailed(made.host, "failed to create file", made.made)
               ELSE LET at == Append(made.loc, rel_path[Len(rel_path)]) IN
                    IF Lookup(made.host, at).kind \notin {"none", "file"}
                      THEN RecvFailed(made.host, "failed to create file", made.made)
                    ELSE LET body == RecvChunks(SubSeq(stream, 9 + hdr_size, Len(stream)),
                                                file_size.val, 0, <<>>)
                         IN [ok |-> body.ok, err |-> body.err,
                             host |-> PutFile(made.host, at, FileEntry(body.content, 1)),
                             rel_path |-> rel_path,
                             written |-> made.made \cup {at}]

\* co_await sendFile(tree A, node at addr, chunk_size)
SendFile(addr, chunk_size) ==
  /\ xfer.status = "none"
  /\ tree["A"].status = "ok"
  /\ LET node == NodeAt(tree["A"].root, addr)
         r == sendFile(disk["A"], node, chunk_size)
     IN xfer' = [status |-> IF r.ok THEN "sent" ELSE "send_failed", path |-> node.path,
                 chunk_size |-> chunk_size, stream |-> r.stream, err |-> r.err]
  /\ last_call' = NoCall
  /\ UNCHANGED <<netVars, disk, nwrites, tree, diffs, wire>>

\* co_await receiveFile(tree B) on the other end of the connection, then
\* tree = DirectoryTree(tree.root_path)
ReceiveFile ==
  /\ xfer.status = "sent"
  /\ tree["B"].status = "ok"
  /\ \E g \in Garbage, ord \in Orders :
       LET r == receiveFile(xfer.stream, HostOf(disk["B"], tree["B"].root_path),
                            tree["B"].root_path, g)
           e == Lookup(r.host, tree["B"].root_path)
           scan == NodeDirectory(e, tree["B"].root_path, ord)
       IN /\ disk' = [disk EXCEPT !["B"] = e]
          /\ IF r.ok /\ scan.ok
               THEN /\ tree' = [tree EXCEPT !["B"] = DirectoryTreeOf(tree["B"].root_path, scan.node)]
                    /\ xfer' = [xfer EXCEPT !.status = "received", !.written = r.written]
               ELSE /\ tree' = tree
                    /\ xfer' = [xfer EXCEPT !.status = "receive_failed",
                                            !.err = IF r.ok THEN scan.what ELSE r.err,
                                            !.written = r.written]
  /\ last_call' = NoCall
  /\ UNCHANGED <<netVars, nwrites, diffs, wire>>

\* the files a sender holds, and the file a receiver may hold already
XferFiles == {FileEntry(c, 1) : c \in SeqsUpTo(1..MaxByte, MaxXferLen)}

OldFile == FileEntry([i \in 1..(MaxXferLen + 1) |-> MaxByte], 1)

SenderRoots == {DirEntry(1, e) : e \in ContentsWith(MaxDiffNodes, MaxDepth, XferFiles)}

ReceiverRoots == {DirEntry(1, e) : e \in ContentsWith(MaxDiffNodes - 1, MaxDepth, {OldFile})}

InitTransfer ==
  /\ SessionInit
  /\ workload = "single"
  /\ \E a \in SenderRoots, b \in ReceiverRoots :
       disk = [x \in Sides |-> IF x = "A" THEN a ELSE b]
  /\ FsStart

\* both ends scan their root; a file of the sender may be rewritten before
\* it is sent
NextTransfer ==
  \/ tree["A"].status = "none" /\ Scan("A")
  \/ tree["A"].status = "ok" /\ tree["B"].status = "none" /\ Scan("B")
  \/ xfer.status = "none" /\ tree["B"].status = "ok"
       /\ \E p \in PathsBelow(disk["A"]) : WriteFile("A", p)
  \/ tree["B"].status = "ok"
       /\ \E addr \in Addrs(tree["A"].root), c \in ChunkSizes(workload) : SendFile(addr, c)
  \/ ReceiveFile

SpecTransfer == InitTransfer /\ [][NextTransfer]_vars

\* ------------------------------------------------------------------------
\* receiveFile fed by a remote peer that is not this program: the header
\* names any path
\* ------------------------------------------------------------------------
\* longest rel_path a remote peer sends
MaxPathLen == 4

\* '.', '/' and 'a'
PathChars == {46, 47, 97}

HostilePaths == SeqsUpTo(PathChars, MaxPathLen)

\* the bytes a remote peer writes for a file of one byte at rel_path str:
\* header length, header, one chunk
HostileStream(str) ==
  LET header_buf == write_string(str) \o write_u64(1)
  IN htobe64(Len(header_buf)) \o header_buf \o htobe32(1) \o <<1>>

InitHostile ==
  /\ SessionInit
  /\ workload = "single"
  /\ \E b \in ReceiverRoots : disk = [x \in Sides |-> IF x = "A" THEN NoEntry ELSE b]
  /\ nwrites = 0
  /\ tree = [x \in Sides |-> NoTree]
  /\ last_call = NoCall
  /\ diffs = [pr \in Sides \X Sides |-> NoDiff]
  /\ wire = NoWire
  /\ \E str \in HostilePaths :
       xfer = [NoXfer EXCEPT !.status = "sent", !.stream = HostileStream(str)]

\* the receiver scans its root and calls receiveFile
NextHostile ==
  \/ tree["B"].status = "none" /\ Scan("B")
  \/ ReceiveFile

SpecHostile == InitHostile /\ [][NextHostile]_vars

\* ------------------------------------------------------------------------
\* Two peers on one connection: each end owns one Session, whose sendTree
\* and receiveTree share that session's busy_; what one end writes is what
\* the other end reads, in order.  The connection is healthy: writes
\* complete, and a read completes when the bytes it asks for have arrived.
\* ------------------------------------------------------------------------
Ends == {"X", "Y"}

Other(e) == IF e = "X" THEN "Y" ELSE "X"

TreeOps == {"sendTree", "receiveTree"}

\* buffer_.size() of the serialized tree of an end (a tree has a root node)
LinkTreeSizes == 1..MaxTreeLen

LinkStart(nx, ny) ==
  [pc |-> [e \in Ends |-> [k \in TreeOps |-> "idle"]],
   busy_ |-> [e \in Ends |-> FALSE],
   acq |-> [e \in Ends |-> <<>>],
   buffer_size |-> [e \in Ends |-> 0],
   tree_size |-> [e \in Ends |-> IF e = "X" THEN nx ELSE ny],
   stream |-> [e \in Ends |-> <<>>],
   got |-> [e \in Ends |-> <<>>]]

\* sendTree or receiveTree is invoked on end e
LinkInvoke(e, k) ==
  /\ link.pc[e][k] = "idle"
  /\ link' = [link EXCEPT !.pc[e][k] = "spin"]
  /\ UNCHANGED <<fsVars, sessionVars, acceptVars>>

\* while (busy_.exchange(true)) co_await post(strand_)
LinkAcquire(e, k, next) ==
  /\ link.pc[e][k] = "spin"
  /\ IF link.busy_[e]
       THEN UNCHANGED vars
       ELSE /\ link' = [link EXCEPT !.busy_[e] = TRUE,
                                    !.acq[e] = Append(@, k),
                                    !.pc[e][k] = next]
            /\ UNCHANGED <<fsVars, sessionVars, acceptVars>>

LinkSendTreeAcquire(e) == LinkAcquire(e, "sendTree", "write")

\* async_write of {size_be_, buffer_}: the length prefix reaches the stream
LinkSendTreeWriteSize(e) ==
  /\ link.pc[e]["sendTree"] = "write"
  /\ link' = [link EXCEPT !.buffer_size[e] = link.tree_size[e],
                          !.stream[Other(e)] = Append(@, [kind |-> "treesize", val |-> link.tree_size[e]]),
                          !.pc[e]["sendTree"] = "write2"]
  /\ UNCHANGED <<fsVars, sessionVars, acceptVars>>

\* the payload reaches the stream, the write completes, busy_.store(false)
LinkSendTreeWritePayload(e) ==
  /\ link.pc[e]["sendTree"] = "write2"
  /\ link' = [link EXCEPT !.stream[Other(e)] = Append(@, [kind |-> "treepayload", val |-> link.buffer_size[e], from |-> e]),
                          !.busy_[e] = FALSE,
                          !.pc[e]["sendTree"] = "done"]
  /\ UNCHANGED <<fsVars, sessionVars, acceptVars>>

LinkReceiveTreeAcquire(e) == LinkAcquire(e, "receiveTree", "size")

\* async_read of the 8-byte length completes once those bytes have arrived;
\* the size check (a serialized tree of the other end passes it) and
\* buffer_.resize
LinkReceiveTreeReadSize(e) ==
  /\ link.pc[e]["receiveTree"] = "size"
  /\ link.stream[e] # <<>>
  /\ TreeSizeOk(Head(link.stream[e]).val)
  /\ link' = [link EXCEPT !.stream[e] = Tail(@),
                          !.buffer_size[e] = Head(link.stream[e]).val,
                          !.pc[e]["receiveTree"] = "payload"]
  /\ UNCHANGED <<fsVars, sessionVars, acceptVars>>

\* async_read of the payload completes once it has arrived;
\* busy_.store(false) and deserializeTree
LinkReceiveTreeReadPayload(e) ==
  /\ link.pc[e]["receiveTree"] = "payload"
  /\ link.stream[e] # <<>>
  /\ Head(link.stream[e]).val = link.buffer_size[e]
  /\ link' = [link EXCEPT !.stream[e] = Tail(@),
                          !.got[e] = <<[from |-> Head(link.stream[e]).from, size |-> link.buffer_size[e]]>>,
                          !.busy_[e] = FALSE,
                          !.pc[e]["receiveTree"] = "done"]
  /\ UNCHANGED <<fsVars, sessionVars, acceptVars>>

InitLink ==
  /\ PeerInit
  /\ workload = "single"
  /\ FsIdle
  /\ \E nx \in LinkTreeSizes, ny \in LinkTreeSizes : link = LinkStart(nx, ny)

\* the handlers of operation k of end e
LinkStep(e, k) ==
  IF k = "sendTree"
    THEN \/ LinkSendTreeAcquire(e)
         \/ LinkSendTreeWriteSize(e)
         \/ LinkSendTreeWritePayload(e)
    ELSE \/ LinkReceiveTreeAcquire(e)
         \/ LinkReceiveTreeReadSize(e)
         \/ LinkReceiveTreeReadPayload(e)

NextLink ==
  \/ \E e \in Ends, k \in TreeOps : LinkInvoke(e, k)
  \/ \E e \in Ends : LinkSendTreeAcquire(e)
  \/ \E e \in Ends : LinkSendTreeWriteSize(e)
  \/ \E e \in Ends : LinkSendTreeWritePayload(e)
  \/ \E e \in Ends : LinkReceiveTreeAcquire(e)
  \/ \E e \in Ends : LinkReceiveTreeReadSize(e)
  \/ \E e \in Ends : LinkReceiveTreeReadPayload(e)

\* each strand runs every handler that is ready
LinkFair == \A e \in Ends, k \in TreeOps : WF_vars(LinkStep(e, k))

SpecLink == InitLink /\ [][NextLink]_vars /\ LinkFair
\* ------------------------------------------------------------------------
\* Properties
\* ------------------------------------------------------------------------
RECURSIVE SumSeq(_)
SumSeq(q) == IF q = <<>> THEN 0 ELSE Head(q) + SumSeq(Tail(q))

\* the values of the frames of kind k that operation o put on / took from q
Vals(q, o, k) ==
  LET fs == SelectSeq(q, LAMBDA f : f.op = o /\ f.kind = k)
  IN [i \in 1..Len(fs) |-> fs[i].val]

\* the operations of q in the order of their first frame
RECURSIVE MsgOrder(_)
MsgOrder(q) ==
  IF q = <<>> THEN <<>>
  ELSE LET h == Head(q).op
       IN <<h>> \o MsgOrder(SelectSeq(Tail(q), LAMBDA f : f.op # h))

\* An operation is active from the completion of its first socket read or
\* write until the completion of its last one.
Active(o) ==
  ops[o].pc \in {"st_write2", "rt_payload", "sf_hdr", "sf_chunksize", "sf_chunk",
                 "rf_hdr", "rf_chunksize", "rf_chunk"}

\* C1: on one session at most one of sendTree, receiveTree, sendFile and
\* receiveFile is active at any time.
C1_AtMostOneActive ==
  \A s \in SessionIds :
    Cardinality({o \in OpIds : ops[o].sess = s /\ Active(o)}) <= 1

\* C2: the frames one sending operation writes form one contiguous block of
\* the outgoing stream of its session, never interleaved with another's.
C2_NoInterleaving ==
  \A s \in SessionIds : \A i, j, k \in DOMAIN out[s] :
    (i < j /\ j < k /\ out[s][i].op = out[s][k].op) => out[s][j].op = out[s][i].op

\* C3: when an operation has ended with an error its session is closed: the
\* socket is closed and the session is no longer in the peer's session set.
C3_ErrorClosesSession ==
  \A o \in OpIds :
    ops[o].pc = "failed" => (sock[ops[o].sess] = "closed" /\ ops[o].sess \notin sessions_)

\* C4: the close callback runs exactly once for a closed session and never
\* for an open one, whatever failures, close() and clearSessions() calls
\* happened.
C4_OnCloseOnce ==
  \A s \in SessionIds :
    on_close_calls[s] = (IF sock[s] = "closed" THEN 1 ELSE 0)

\* a sendTree or receiveTree invoked on a closed session has failed, so its
\* handler called close() on a session that was closed before
C4_Witness ==
  \E o \in OpIds :
    /\ ops[o].kind \in {"sendTree", "receiveTree"}
    /\ ops[o].late
    /\ ops[o].pc = "failed"
    /\ on_close_calls[ops[o].sess] = 1

\* the state of a session in the terms of the specification
SessionState(s) ==
  IF sock[s] = "none" THEN "None"
  ELSE IF sock[s] = "closed" THEN "Closed"
  ELSE IF busy_[s] THEN "InUse" ELSE "Open"

\* C5: a closed session stays closed, and an operation invoked on a closed
\* session never completes successfully and transfers nothing: no frame
\* written, no frame read, no byte written to a file.
C5_ClosedIsTerminal ==
  /\ [][\A s \in SessionIds : SessionState(s) = "Closed" => SessionState(s)' = "Closed"]_vars
  /\ [](\A o \in OpIds : ops[o].late =>
          /\ ops[o].pc # "done"
          /\ \A i \in DOMAIN out[ops[o].sess] : out[ops[o].sess][i].op # o
          /\ \A i \in DOMAIN inp[ops[o].sess] : inp[ops[o].sess][i].op # o
          /\ ops[o].written = 0)

\* a sendFile invoked on a closed session has failed at its first write
C5_Witness ==
  \E o \in OpIds : ops[o].late /\ ops[o].pc = "failed" /\ ops[o].kind = "sendFile"
                   /\ ops[o].err = "transport"

\* C6: the messages on the outgoing stream of a session appear in the order
\* in which their operations acquired the busy flag.
C6_StreamFollowsAcquisition ==
  \A s \in SessionIds :
    MsgOrder(out[s]) =
      SelectSeq(acq[s], LAMBDA o : \E i \in DOMAIN out[s] : out[s][i].op = o)

\* C7: a declared tree length above MAX_TREE_SIZE makes receiveTree fail
\* with no payload read and buffer_ not resized; a length up to and including
\* MAX_TREE_SIZE is accepted and buffer_ resized to it.
C7_TreeSizeLimit ==
  /\ [](\A s \in SessionIds : \A i \in DOMAIN inp[s] :
          inp[s][i].kind = "treesize" =>
            LET o == inp[s][i].op
                v == inp[s][i].val
            IN IF v > MAX_TREE_SIZE
                 THEN /\ ops[o].pc = "failed"
                      /\ ops[o].err = "Tree payload too large"
                      /\ Vals(inp[s], o, "treepayload") = <<>>
                 ELSE /\ ops[o].err # "Tree payload too large"
                      /\ ops[o].size = v
                      /\ ops[o].pc \in {"rt_payload", "done", "failed"})
  /\ [][\A o \in OpIds : ops[o].pc = "rt_size" =>
          /\ ops'[o].err = "Tree payload too large" => buffer_size' = buffer_size
          /\ ops'[o].pc = "rt_payload" =>
               buffer_size'[ops[o].sess] = ops'[o].size]_vars

\* a receiveTree was refused a payload of MAX_TREE_SIZE + 1 bytes
C7_Witness ==
  \E o \in OpIds :
    /\ ops[o].err = "Tree payload too large"
    /\ Vals(inp[ops[o].sess], o, "treesize") = <<MAX_TREE_SIZE + 1>>
    /\ sock[ops[o].sess] = "closed"

\* C8: a chunk whose declared length is zero or above MAX_FILE_CHUNK_SIZE
\* makes receiveFile fail at once: it reads nothing after that length, and
\* the file holds no more than the payloads of the chunks read before.
C8_ChunkSizeLimit ==
  \A s \in SessionIds : \A o \in OpIds :
    /\ \A i \in DOMAIN inp[s] :
         (inp[s][i].op = o /\ inp[s][i].kind = "chunksize"
            /\ (inp[s][i].val = 0 \/ inp[s][i].val > MAX_FILE_CHUNK_SIZE)) =>
           /\ ops[o].pc = "failed"
           /\ ops[o].err = "chunk too large"
           /\ \A j \in DOMAIN inp[s] : j > i => inp[s][j].op # o
    /\ \A i \in DOMAIN inp[s] :
         (inp[s][i].op = o /\ inp[s][i].kind = "chunk") =>
           (inp[s][i].val > 0 /\ inp[s][i].val <= MAX_FILE_CHUNK_SIZE)
    /\ (ops[o].kind = "receiveFile" /\ ops[o].sess = s) =>
         ops[o].written <= SumSeq(Vals(inp[s], o, "chunk"))

\* a receiveFile wrote one chunk and was then refused a chunk of length zero
C8_Witness ==
  \E o \in OpIds :
    /\ ops[o].err = "chunk too large"
    /\ ops[o].written > 0
    /\ \E i \in DOMAIN inp[ops[o].sess] :
         inp[ops[o].sess][i] = Frame(o, "chunksize", 0)

\* C9: the chunks of a successful sendFile have lengths in 1..chunk_size that
\* sum to the file_size of its header, all but the last equal to chunk_size,
\* each length frame followed by that many payload bytes; an empty file has
\* no chunk.
C9_ChunksSumToFileSize ==
  \A o \in OpIds :
    (ops[o].kind = "sendFile" /\ ops[o].pc = "done") =>
      LET q == out[ops[o].sess]
          cs == Vals(q, o, "chunksize")
      IN /\ Vals(q, o, "hdr") = <<ops[o].file_size>>
         /\ SumSeq(cs) = ops[o].file_size
         /\ Vals(q, o, "chunk") = cs
         /\ \A i \in DOMAIN cs : cs[i] >= 1 /\ cs[i] <= ops[o].chunk_size
         /\ \A i \in DOMAIN cs : i < Len(cs) => cs[i] = ops[o].chunk_size
         /\ ops[o].file_size = 0 => cs = <<>>

\* a file of MaxFileSize bytes was sent in several chunks, the last shorter
C9_Witness ==
  \E o \in OpIds :
    /\ ops[o].kind = "sendFile" /\ ops[o].pc = "done"
    /\ ops[o].file_size = MaxFileSize
    /\ Len(Vals(out[ops[o].sess], o, "chunksize")) > 1
    /\ Vals(out[ops[o].sess], o, "chunksize")[Len(Vals(out[ops[o].sess], o, "chunksize"))]
         < ops[o].chunk_size

\* C10: when receiveFile completes successfully the number of bytes written
\* to the destination file equals the file_size of the header.
C10_WrittenEqualsFileSize ==
  \A o \in OpIds :
    (ops[o].kind = "receiveFile" /\ ops[o].pc = "done") =>
      ops[o].written = ops[o].file_size


\* ------------------------------------------------------------------------
\* Properties of scanned trees
\* ------------------------------------------------------------------------
\* the children of node, and of every directory below it, are in
\* canonical order
RECURSIVE CanonicalOrder(_)
CanonicalOrder(node) ==
  /\ \A i, j \in DOMAIN node.kids :
       i < j => \/ node.kids[i].type = "Directory" /\ node.kids[j].type = "File"
                \/ /\ node.kids[i].type = node.kids[j].type
                   /\ LexLess(node.kids[i].name, node.kids[j].name)
  /\ \A i \in DOMAIN node.kids : CanonicalOrder(node.kids[i])

\* C12: in every directory node of a scanned tree all Directory children
\* come before all File children, and children of one type are in strictly
\* increasing order of name, whatever order the file system enumerated in
C12_CanonicalOrder ==
  \A x \in Sides : tree[x].status = "ok" => CanonicalOrder(tree[x].root)

\* a scanned directory holds a subdirectory whose name is greater than the
\* name of a file next to it
C12_Witness ==
  /\ tree["A"].status = "ok"
  /\ \E i, j \in DOMAIN tree["A"].root.kids :
       /\ tree["A"].root.kids[i].type = "Directory"
       /\ tree["A"].root.kids[j].type = "File"
       /\ LexLess(tree["A"].root.kids[j].name, tree["A"].root.kids[i].name)

\* the address of the parent of the node at address a
Parent(a) == SubSeq(a, 1, Len(a) - 1)

\* the index maps the path of every node to that node and holds nothing else
IndexExact(t) ==
  /\ DOMAIN t.index = {NodeAt(t.root, a).path : a \in Addrs(t.root)}
  /\ \A a \in Addrs(t.root) : t.index[NodeAt(t.root, a).path] = a

HasOther(e) == \E p \in PathsBelow(e) : Lookup(e, p).kind = "other"

\* the paths and types of the nodes of tree t
NodeKinds(t) == {<<NodeAt(t.root, a).path, NodeAt(t.root, a).type>> : a \in Addrs(t.root)}

\* the paths and types of the regular files and directories at and below e
EntryKinds(e) ==
  {<<<<DOT>>, "Directory">>}
    \cup {<<p, IF Lookup(e, p).kind = "file" THEN "File" ELSE "Directory">> :
            p \in {q \in PathsBelow(e) : Lookup(e, q).kind \in {"file", "dir"}}}

\* C14 as stated: scanning a directory that holds an entry that is neither
\* a regular file nor a directory succeeds, and the tree has no node for it
C14_OtherEntrySkipped ==
  \A x \in Sides :
    (/\ nwrites = 0
     /\ disk[x].kind = "dir"
     /\ HasOther(disk[x])
     /\ tree[x].scan # "none"
     /\ tree[x].what # "filesystem_error")
    => /\ tree[x].scan = "ok"
       /\ NodeKinds(tree[x]) = EntryKinds(disk[x])


\* C15: a scan either returns a fully built tree (every regular file and
\* directory under the root is a node, in canonical order, with the index
\* established) or fails with an error; a root that does not exist or is
\* not a directory fails; no partly built tree is ever observable
C15_ScanAllOrNothing ==
  \A x \in Sides :
    /\ (tree[x].status = "ok" /\ nwrites = 0) =>
         /\ NodeKinds(tree[x]) = EntryKinds(disk[x])
         /\ CanonicalOrder(tree[x].root)
         /\ IndexExact(tree[x])
    /\ disk[x].kind # "dir" =>
         /\ tree[x].status = "none"
         /\ tree[x].scan \in {"none", "error"}
    /\ tree[x].status = "none" =>
         /\ tree[x].root = NoNode
         /\ tree[x].index = <<>>
    /\ tree[x].scan = "ok" => tree[x].status = "ok"

\* the scan of a root that is not a directory has failed
C15_Witness ==
  /\ disk["A"].kind # "dir"
  /\ tree["A"].scan = "error"
  /\ tree["A"].what = "Path must point a directory."

\* C16: generate_hash on a File node whose hash is present leaves the hash
\* as it is and opens no file, even if the file has changed or is gone;
\* on a Directory node it does nothing
C16_GenerateHashIdempotent ==
  (/\ last_call.op = "generate_hash"
   /\ \/ last_call.before.type = "Directory"
      \/ last_call.before.file_hash # <<>>)
  => /\ last_call.reads = <<>>
     /\ \A x \in Sides : tree[x].status = "ok" /\ last_call.addr \in Addrs(tree[x].root)
          => NodeAt(tree[x].root, last_call.addr) = last_call.before

\* generate_hash was called on a node with a cached hash after the file
\* was rewritten with other bytes or removed
C16_Witness ==
  /\ last_call.op = "generate_hash"
  /\ last_call.before.file_hash # <<>>
  /\ LET f == Lookup(disk["A"], last_call.before.path)
     IN f.kind # "file" \/ <<SHA256(f.content)>> # last_call.before.file_hash

\* C11: what deserialization builds from the serialization of a tree has
\* the types, names, paths, mtimes, sizes, hashes (present or not, and
\* their bytes), child counts and child order of the tree that was
\* serialized
C11_WireRoundTrip == wire.status = "received" => wire.node = wire.sent

\* a tree with a hashed file two levels below the root and a negative
\* mtime has gone through the wire
C11_Witness ==
  /\ wire.status = "received"
  /\ \E a \in Addrs(wire.sent) :
       /\ Len(a) = 2
       /\ NodeAt(wire.sent, a).file_hash # <<>>
       /\ NodeAt(wire.sent, a).mtime < 0

\* ------------------------------------------------------------------------
\* Properties of diffTree
\* ------------------------------------------------------------------------
\* C17: diffTree of a tree with itself, when it returns, returns no record
C17_DiffSelfEmpty ==
  \A x \in Sides : diffs[<<x, x>>].status = "ok" => diffs[<<x, x>>].recs = <<>>

\* a tree with a file below a subdirectory was compared with itself, and
\* the file was opened for hashing
C17_Witness ==
  /\ diffs[<<"A", "A">>].status = "ok"
  /\ last_call.op = "diffTree"
  /\ \E k \in DOMAIN last_call.reads : Len(last_call.reads[k]) = 2

\* the record diffTree returns for a change when old and new are exchanged
Mirror(rec) ==
  [type |-> IF rec.type = "Added" THEN "Deleted"
            ELSE IF rec.type = "Deleted" THEN "Added" ELSE "Modified",
   old_node |-> rec.new_node, new_node |-> rec.old_node]

\* how often rec occurs in the sequence q
Count(q, rec) == Cardinality({k \in DOMAIN q : q[k] = rec})

\* C18: the Added records of diff(A, B) correspond one to one, with equal
\* path and snapshot, to the Deleted records of diff(B, A), the Deleted
\* ones to the Added ones, and the Modified ones to the Modified ones with
\* old and new exchanged
C18_DiffSymmetry ==
  LET ab == diffs[<<"A", "B">>]
      ba == diffs[<<"B", "A">>]
  IN (ab.status = "ok" /\ ba.status = "ok") =>
       /\ \A k \in DOMAIN ab.recs : Count(ab.recs, ab.recs[k]) = Count(ba.recs, Mirror(ab.recs[k]))
       /\ \A k \in DOMAIN ba.recs : Count(ba.recs, ba.recs[k]) = Count(ab.recs, Mirror(ba.recs[k]))

\* both directions were computed, with an Added and a Modified record
\* between files of equal size in diff(A, B)
C18_Witness ==
  LET ab == diffs[<<"A", "B">>]
      ba == diffs[<<"B", "A">>]
  IN /\ ab.status = "ok"
     /\ ba.status = "ok"
     /\ \E k \in DOMAIN ab.recs : ab.recs[k].type = "Added"
     /\ \E k \in DOMAIN ab.recs :
          /\ ab.recs[k].type = "Modified"
          /\ ab.recs[k].old_node[1].type = "File"
          /\ ab.recs[k].new_node[1].type = "File"
          /\ ab.recs[k].old_node[1].size = ab.recs[k].new_node[1].size

\* the path a record is about
RecPath(rec) == IF rec.old_node # <<>> THEN rec.old_node[1].path ELSE rec.new_node[1].path

\* the root of side y holds the entries of the root of side x, which are
\* all regular files, and one directory named c besides
FilesPlusDirectory(x, y, c) ==
  /\ \A nm \in DOMAIN disk[x].entries : disk[x].entries[nm].kind = "file"
  /\ c \notin DOMAIN disk[x].entries
  /\ DOMAIN disk[y].entries = DOMAIN disk[x].entries \cup {c}
  /\ disk[y].entries[c].kind = "dir"
  /\ \A nm \in DOMAIN disk[x].entries :
       /\ disk[y].entries[nm].kind = "file"
       /\ disk[y].entries[nm].content = disk[x].entries[nm].content

\* C19: when the root of B holds exactly the files of the root of A and one
\* more directory c, diff(A, B) is the single record Added(c), whatever the
\* names are
C19_AddedDirectoryOnly ==
  \A c \in Names :
    (FilesPlusDirectory("A", "B", c) /\ diffs[<<"A", "B">>].status = "ok") =>
      /\ Len(diffs[<<"A", "B">>].recs) = 1
      /\ diffs[<<"A", "B">>].recs[1].type = "Added"
      /\ RecPath(diffs[<<"A", "B">>].recs[1]) = <<c>>

\* p is a proper prefix of q
Below(p, q) == Len(p) < Len(q) /\ SubSeq(q, 1, Len(p)) = p

\* C20: when one path is a File in one tree and a Directory in the other,
\* diff(A, B) has exactly one record for the path, a Modified one with both
\* snapshots, and no record for a path below it
C20_TypeChangeModified ==
  LET ab == diffs[<<"A", "B">>] IN
  ab.status = "ok" =>
    \A oa \in Addrs(tree["A"].root), na \in Addrs(tree["B"].root) :
      LET o == NodeAt(tree["A"].root, oa)
          n == NodeAt(tree["B"].root, na)
      IN (o.path = n.path /\ o.type # n.type) =>
           /\ Cardinality({k \in DOMAIN ab.recs : RecPath(ab.recs[k]) = o.path}) = 1
           /\ \A k \in DOMAIN ab.recs :
                /\ RecPath(ab.recs[k]) = o.path =>
                     /\ ab.recs[k].type = "Modified"
                     /\ ab.recs[k].old_node = <<NodeSnapshot(o)>>
                     /\ ab.recs[k].new_node = <<NodeSnapshot(n)>>
                /\ ~Below(o.path, RecPath(ab.recs[k]))

\* the File nodes of a tree, by address
FileAddrs(root) == {a \in Addrs(root) : NodeAt(root, a).type = "File"}

\* path p is path q or lies below it
AtOrBelow(q, p) == p = q \/ Below(q, p)

\* the nodes of tree x that diff(A, B) reported as r, or that lie under
\* the directory it reported: none of them was paired with anything
Unpaired(x, r) ==
  IF \/ (r.type = "Added" /\ x = "B")
     \/ (r.type = "Deleted" /\ x = "A")
    THEN {a \in FileAddrs(tree[x].root) : AtOrBelow(RecPath(r), NodeAt(tree[x].root, a).path)}
  ELSE IF r.type = "Modified" /\ r.old_node[1].type # r.new_node[1].type
    THEN {a \in FileAddrs(tree[x].root) : Below(RecPath(r), NodeAt(tree[x].root, a).path)}
  ELSE {}

\* C21: two trees scanned and never hashed are compared; afterwards a File
\* node has a hash only if the walk paired it with a File node of the other
\* tree at the same path and of the same size; a file reported as Added or
\* Deleted, or lying under an Added, Deleted or type-changed directory, has
\* none
C21_HashLaziness ==
  LET ab == diffs[<<"A", "B">>] IN
  ab.status = "ok" =>
    /\ \A oa \in FileAddrs(tree["A"].root) :
         NodeAt(tree["A"].root, oa).file_hash # <<>> =>
           \E k \in DOMAIN ab.pairs :
             /\ ab.pairs[k][1] = oa
             /\ NodeAt(tree["B"].root, ab.pairs[k][2]).type = "File"
             /\ NodeAt(tree["B"].root, ab.pairs[k][2]).size = NodeAt(tree["A"].root, oa).size
    /\ \A na \in FileAddrs(tree["B"].root) :
         NodeAt(tree["B"].root, na).file_hash # <<>> =>
           \E k \in DOMAIN ab.pairs :
             /\ ab.pairs[k][2] = na
             /\ NodeAt(tree["A"].root, ab.pairs[k][1]).type = "File"
             /\ NodeAt(tree["A"].root, ab.pairs[k][1]).size = NodeAt(tree["B"].root, na).size
    /\ \A k \in DOMAIN ab.recs, x \in Sides :
         /\ \A a \in Unpaired(x, ab.recs[k]) : NodeAt(tree[x].root, a).file_hash = <<>>
         /\ ab.recs[k].type \in {"Added", "Deleted"} =>
              \A sn \in {ab.recs[k].old_node, ab.recs[k].new_node} :
                sn # <<>> => sn[1].file_hash = <<>>

\* diff(A, B) paired two files of different size and reported another entry
\* as Added or Deleted
C21_Witness ==
  LET ab == diffs[<<"A", "B">>] IN
  /\ ab.status = "ok"
  /\ \E k \in DOMAIN ab.pairs :
       /\ NodeAt(tree["A"].root, ab.pairs[k][1]).type = "File"
       /\ NodeAt(tree["B"].root, ab.pairs[k][2]).type = "File"
       /\ NodeAt(tree["A"].root, ab.pairs[k][1]).size # NodeAt(tree["B"].root, ab.pairs[k][2]).size
  /\ \E k \in DOMAIN ab.recs : ab.recs[k].type \in {"Added", "Deleted"}

\* the records of diff(A, B) about path p
RecsAt(p) ==
  LET ab == diffs[<<"A", "B">>] IN {k \in DOMAIN ab.recs : RecPath(ab.recs[k]) = p}

\* C22: for two File nodes the walk of diff(A, B) paired at one path: with
\* different sizes there is one Modified record; with equal sizes both
\* hashes are populated, and there is one Modified record, carrying both
\* hashes, if the hashes differ and no record if they are equal, whatever
\* the two mtimes are
C22_PairedFiles ==
  LET ab == diffs[<<"A", "B">>] IN
  ab.status = "ok" =>
    \A k \in DOMAIN ab.pairs :
      LET o == NodeAt(tree["A"].root, ab.pairs[k][1])
          n == NodeAt(tree["B"].root, ab.pairs[k][2])
          changed == o.size # n.size \/ o.file_hash # n.file_hash
      IN (o.type = "File" /\ n.type = "File") =>
           /\ o.size = n.size => (o.file_hash # <<>> /\ n.file_hash # <<>>)
           /\ changed =>
                /\ Cardinality(RecsAt(o.path)) = 1
                /\ \A r \in RecsAt(o.path) :
                     ab.recs[r] = [type |-> "Modified", old_node |-> <<NodeSnapshot(o)>>,
                                   new_node |-> <<NodeSnapshot(n)>>]
           /\ ~changed => RecsAt(o.path) = {}

\* diff(A, B) paired two files of equal size, equal content and different
\* mtime, and emitted nothing for them
C22_Witness ==
  LET ab == diffs[<<"A", "B">>] IN
  /\ ab.status = "ok"
  /\ \E k \in DOMAIN ab.pairs :
       LET o == NodeAt(tree["A"].root, ab.pairs[k][1])
           n == NodeAt(tree["B"].root, ab.pairs[k][2])
       IN /\ o.type = "File" /\ n.type = "File"
          /\ o.file_hash # <<>> /\ o.file_hash = n.file_hash
          /\ o.mtime # n.mtime
          /\ RecsAt(o.path) = {}

\* C26 as stated: decoding a buffer that ends early (inside an integer, a
\* string, a hash, or before all declared children are read) ends with an
\* error; no tree built from bytes that were never read is returned
C26_ShortInputFails == wire.cut => wire.status # "received"

\* ------------------------------------------------------------------------
\* Properties of the acceptor and of the session set
\* ------------------------------------------------------------------------
\* C23 as stated: once a completion handler of async_accept has run with an
\* error, no accept is outstanding or queued any more
C23_AcceptLoopEnds == accept_failed => accept_op \notin {"armed", "ok", "error"}

\* C24 as stated: once closeAcceptor has returned on_accept is not called
\* again, and the call itself changes neither the session set nor the state
\* of a session
C24_CloseAcceptorStops ==
  [][/\ acceptor_ = "closed" => on_accept_calls' = on_accept_calls
     /\ (acceptor_ = "open" /\ acceptor_' = "closed") =>
          (sock' = sock /\ sessions_' = sessions_ /\ busy_' = busy_)]_vars

\* C25: a call of clearSessions closes every session of the set, runs the
\* close callback of each of them once, and leaves the set empty
C25_ClearSessionsClosesAll ==
  [][ClearSessions =>
       /\ sessions_' = {}
       /\ \A s \in sessions_ :
            /\ sock[s] = "open"
            /\ sock'[s] = "closed"
            /\ on_close_calls[s] = 0
            /\ on_close_calls'[s] = 1]_vars

\* every session there is has been closed, each with one callback, the set
\* is empty and no operation has failed: the state clearSessions leaves
\* when it is called with all sessions in the set
C25_Witness ==
  /\ sessions_ = {}
  /\ \A s \in SessionIds : sock[s] = "closed" /\ on_close_calls[s] = 1
  /\ \A o \in OpIds : ops[o].pc # "failed"

\* C28: the handler of a successful accept creates one new session, calls
\* on_accept with it while it is in sessions_, and arms the next accept
C28_AcceptCreatesSession ==
  [][(accept_op = "ok" /\ accept_op' # "ok") =>
       /\ accept_op' = "armed"
       /\ \E s \in SessionIds :
            /\ sock[s] = "none"
            /\ sock'[s] = "open"
            /\ s \in sessions_'
            /\ \A k \in DOMAIN on_accept_calls : on_accept_calls[k].sess # s
            /\ on_accept_calls' = Append(on_accept_calls, [sess |-> s, live |-> TRUE])]_vars

\* as many connections as there are sessions were accepted one after the
\* other, each passed to on_accept, and the next accept is armed
C28_Witness ==
  /\ Len(on_accept_calls) = MaxSessions
  /\ \A k \in DOMAIN on_accept_calls : on_accept_calls[k].live
  /\ accept_op = "armed"

\* C29: a step in which an operation fails leaves every other session as it
\* was (in the set or not, open or closed, busy or not) and the acceptor too
C29_FailureIsLocal ==
  [][\A o \in OpIds :
       (ops[o].pc # "failed" /\ ops'[o].pc = "failed") =>
         /\ \A t \in SessionIds \ {ops[o].sess} :
              /\ sock'[t] = sock[t]
              /\ (t \in sessions_') = (t \in sessions_)
              /\ busy_'[t] = busy_[t]
              /\ on_close_calls'[t] = on_close_calls[t]
         /\ acceptor_' = acceptor_
         /\ accept_op' = accept_op]_vars

\* an operation has failed and its session is closed, while another session
\* is open, in the set, and held by an operation
C29_Witness ==
  \E o \in OpIds, t \in SessionIds :
    /\ ops[o].pc = "failed"
    /\ sock[ops[o].sess] = "closed"
    /\ t # ops[o].sess
    /\ sock[t] = "open"
    /\ t \in sessions_
    /\ busy_[t]

\* C27: sendFile called with chunk_size 0 or above MAX_FILE_CHUNK_SIZE
\* fails with "invalid chunk size" before it opens the file and before it
\* writes a byte; chunk_size MAX_FILE_CHUNK_SIZE is not rejected
C27_SendFileChunkArg ==
  \A o \in OpIds :
    ops[o].kind = "sendFile" =>
      /\ (ops[o].chunk_size = 0 \/ ops[o].chunk_size > MAX_FILE_CHUNK_SIZE) =>
           /\ ops[o].pc \in {"sf_enter", "failed"}
           /\ ops[o].pc = "failed" => ops[o].err = "invalid chunk size"
           /\ ~ops[o].open_tried
           /\ \A k \in DOMAIN out[ops[o].sess] : out[ops[o].sess][k].op # o
      /\ (ops[o].chunk_size >= 1 /\ ops[o].chunk_size <= MAX_FILE_CHUNK_SIZE) =>
           ops[o].err # "invalid chunk size"

\* a sendFile with chunk_size MAX_FILE_CHUNK_SIZE + 1 on an open session has
\* failed
C27_Witness ==
  \E o \in OpIds :
    /\ ops[o].kind = "sendFile"
    /\ ops[o].chunk_size = MAX_FILE_CHUNK_SIZE + 1
    /\ ~ops[o].late
    /\ ops[o].pc = "failed"

\* C30 as stated: when sendFile and receiveFile have both completed, the
\* file of the receiver at the path sent holds exactly the bytes of the
\* file of the sender, and the receiver's tree is a fresh scan of its root
\* with the path in its index
C30_TransferExact ==
  xfer.status = "received" =>
    /\ Lookup(disk["B"], xfer.path).kind = "file"
    /\ Lookup(disk["B"], xfer.path).content = Lookup(disk["A"], xfer.path).content
    /\ tree["B"].status = "ok"
    /\ xfer.path \in DOMAIN tree["B"].index
    /\ NodeKinds(tree["B"]) = EntryKinds(disk["B"])

\* ------------------------------------------------------------------------
\* The registry of a Peer
\* ------------------------------------------------------------------------
\* C31: in every reachable state of a Peer, a session is a member of
\* sessions_ if and only if it was created (by an accept or a connect) and
\* has not been closed: no closed session stays in the set and no open
\* session the peer created is missing from it.
C31_SessionRegistry ==
  \A s \in SessionIds :
    /\ s \in sessions_ <=> sock[s] = "open"
    /\ sock[s] = "closed" => s \notin sessions_
    /\ sock[s] = "none" => s \notin sessions_

\* one session made by an accept is still open and registered, another was
\* created and closed by a failing operation
C31_Witness ==
  /\ \E i \in DOMAIN on_accept_calls :
       /\ sock[on_accept_calls[i].sess] = "open"
       /\ on_accept_calls[i].sess \in sessions_
  /\ \E o \in OpIds :
       /\ ops[o].pc = "failed"
       /\ sock[ops[o].sess] = "closed"
       /\ ops[o].sess \notin sessions_

\* ------------------------------------------------------------------------
\* The busy flag
\* ------------------------------------------------------------------------
\* the operation that won busy_.exchange last on session s
Holder(s) == acq[s][Len(acq[s])]

\* operation o leaves its coroutine in this step, by co_return or by throw
Finishes(o) ==
  /\ ops[o].pc \notin {"idle", "done", "failed"}
  /\ ops'[o].pc \in {"done", "failed"}

Acquired(o) ==
  /\ ops[o].sess \in SessionIds
  /\ \E i \in DOMAIN acq[ops[o].sess] : acq[ops[o].sess][i] = o

\* C32: whenever sendTree or receiveTree returns or throws after it has
\* acquired busy_, the flag is false again; and busy_ is cleared only by the
\* operation that holds it, in the step in which that operation finishes.
C32_BusyReleased ==
  [][ /\ \A o \in OpIds :
           (ops[o].kind \in {"sendTree", "receiveTree"} /\ Finishes(o) /\ Acquired(o))
             => ~busy_'[ops[o].sess]
      /\ \A s \in SessionIds :
           (busy_[s] /\ ~busy_'[s])
             => /\ acq[s] # <<>>
                /\ ops[Holder(s)].kind \in {"sendTree", "receiveTree"}
                /\ ops[Holder(s)].sess = s
                /\ Finishes(Holder(s))
                /\ \A q \in OpIds \ {Holder(s)} : ops'[q] = ops[q]
    ]_vars

\* two operations held the flag of one session in turn: the first returned,
\* the second threw, and the flag is free
C32_Witness ==
  \E s \in SessionIds :
    /\ Len(acq[s]) = 2
    /\ ops[acq[s][1]].pc = "done"
    /\ ops[acq[s][2]].pc = "failed"
    /\ ~busy_[s]

\* operation o is in the exchange loop of its session while the flag is free
\* because the operation that held it has returned or thrown
WaitingAfterRelease(o) ==
  /\ ops[o].pc \in {"st_spin", "rt_spin"}
  /\ acq[ops[o].sess] # <<>>
  /\ ~busy_[ops[o].sess]
  /\ ops[Holder(ops[o].sess)].pc \in {"done", "failed"}

LinkAllStarted == \A e \in Ends, k \in TreeOps : link.pc[e][k] # "idle"

LinkExchanged ==
  \A e \in Ends :
    /\ link.pc[e]["receiveTree"] = "done"
    /\ link.got[e] = <<[from |-> Other(e), size |-> link.tree_size[Other(e)]]>>

\* C34: if each of the two peers starts one sendTree and one receiveTree on
\* its end of the same connection, then, whatever the order in which the
\* operations acquire their session's busy flag, both receiveTree calls
\* eventually complete with the other side's tree.
C34_ExchangeTerminates == LinkAllStarted ~> LinkExchanged

\* ------------------------------------------------------------------------
\* Soundness and completeness of diffTree
\* ------------------------------------------------------------------------
\* the relative paths of the nodes of tree x
TreePaths(x) == {NodeAt(tree[x].root, a).path : a \in Addrs(tree[x].root)}

\* the File nodes o of A and n of B are one path with equal size and bytes
SameFile(o, n) ==
  /\ o.path = n.path
  /\ o.size = n.size
  /\ Lookup(disk["A"], o.path).content = Lookup(disk["B"], n.path).content

\* C35: every Added record of diff(A, B) names a path that is absent from
\* A, every Deleted record names a path that is absent from B, and a file
\* present at the same path in both trees with the same size and the same
\* content produces no record at all.
C35_DiffSoundness ==
  LET ab == diffs[<<"A", "B">>] IN
  ab.status = "ok" =>
    /\ \A k \in DOMAIN ab.recs :
         /\ ab.recs[k].type = "Added" => RecPath(ab.recs[k]) \notin TreePaths("A")
         /\ ab.recs[k].type = "Deleted" => RecPath(ab.recs[k]) \notin TreePaths("B")
    /\ \A oa \in FileAddrs(tree["A"].root), na \in FileAddrs(tree["B"].root) :
         SameFile(NodeAt(tree["A"].root, oa), NodeAt(tree["B"].root, na)) =>
           \A k \in DOMAIN ab.recs :
             RecPath(ab.recs[k]) # NodeAt(tree["A"].root, oa).path

\* record r is about path p or about a path above it
Covers(r, p) == AtOrBelow(RecPath(r), p)

\* record r reports the File <-> Directory change of a path above p
TypeChangeAbove(r, p) ==
  /\ r.type = "Modified"
  /\ r.old_node[1].type # r.new_node[1].type
  /\ Below(RecPath(r), p)

\* the File nodes o of A and n of B are one path and differ in size or bytes
ChangedFile(o, n) ==
  /\ o.path = n.path
  /\ \/ o.size # n.size
     \/ Lookup(disk["A"], o.path).content # Lookup(disk["B"], n.path).content

\* every file present in both trees with different size or content is
\* covered by a record for its path or for a path above it
ChangedFilesCovered(recs) ==
  \A oa \in FileAddrs(tree["A"].root), na \in FileAddrs(tree["B"].root) :
    ChangedFile(NodeAt(tree["A"].root, oa), NodeAt(tree["B"].root, na)) =>
      \E k \in DOMAIN recs : Covers(recs[k], NodeAt(tree["A"].root, oa).path)

\* the paths present in exactly one of the two trees
OneSided == (TreePaths("A") \ TreePaths("B")) \cup (TreePaths("B") \ TreePaths("A"))

\* C36 as stated: every path present in exactly one of the two trees is
\* covered by an Added or Deleted record for that path or for an ancestor,
\* and every changed file present in both by a record for that path or an
\* ancestor.
C36_CompleteByAddedDeleted ==
  LET ab == diffs[<<"A", "B">>] IN
  ab.status = "ok" =>
    /\ \A p \in OneSided :
         \E k \in DOMAIN ab.recs :
           ab.recs[k].type \in {"Added", "Deleted"} /\ Covers(ab.recs[k], p)
    /\ ChangedFilesCovered(ab.recs)

\* C36: every path present in exactly one of the two trees is covered by an
\* Added or Deleted record for that path or for an ancestor, or lies below a
\* path whose File <-> Directory change is reported by a Modified record;
\* every file present in both trees with different size or different
\* content is covered by a record for that path or an ancestor.
C36_DiffCompleteness ==
  LET ab == diffs[<<"A", "B">>] IN
  ab.status = "ok" =>
    /\ \A p \in OneSided :
         \E k \in DOMAIN ab.recs :
           \/ ab.recs[k].type \in {"Added", "Deleted"} /\ Covers(ab.recs[k], p)
           \/ TypeChangeAbove(ab.recs[k], p)
    /\ ChangedFilesCovered(ab.recs)

\* diff(A, B) returned with a path of one tree only reported by its own
\* record, and a file of both trees, of one size and different bytes,
\* reported as Modified
C36_Witness ==
  LET ab == diffs[<<"A", "B">>] IN
  /\ ab.status = "ok"
  /\ \E p \in OneSided : \E k \in DOMAIN ab.recs : RecPath(ab.recs[k]) = p
  /\ \E oa \in FileAddrs(tree["A"].root), na \in FileAddrs(tree["B"].root) :
       /\ ChangedFile(NodeAt(tree["A"].root, oa), NodeAt(tree["B"].root, na))
       /\ NodeAt(tree["A"].root, oa).size = NodeAt(tree["B"].root, na).size
       /\ \E k \in DOMAIN ab.recs :
            /\ ab.recs[k].type = "Modified"
            /\ RecPath(ab.recs[k]) = NodeAt(tree["A"].root, oa).path

\* ------------------------------------------------------------------------
\* Where receiveFile writes
\* ------------------------------------------------------------------------
\* C37: for every rel_path that can arrive in a file header, absolute paths
\* and paths with ".." segments included, the file that receiveFile creates
\* or truncates and every directory it creates lie inside tree.root_path.
C37_WriteConfinement ==
  xfer.status \in {"received", "receive_failed"} =>
    \A p \in xfer.written : Below(tree["B"].root_path, p)
====
